---- MODULE Spec2Model ----
(***************************************************************************)
(* Velockers boat configurator: the 3D configuration rendering engine      *)
(* (src/src/components/BoatViewer.tsx) together with the configuration     *)
(* handlers that drive it (ConfigurationContext.tsx, App.tsx).             *)
(*                                                                         *)
(* Strings on which the code computes (replace, endsWith, startsWith,      *)
(* toUpperCase, toLowerCase) are sequences of one-character strings, so    *)
(* that these conversions are computed and not assumed.  Strings the code  *)
(* only compares or stores (option ids, colours) are TLA+ strings.         *)
(***************************************************************************)
EXTENDS Integers, Sequences, FiniteSets, TLC

(***************************************************************************)
(* Bounds                                                                  *)
(***************************************************************************)
\* longest group-visibility mapping table fetched from the settings store
MaxMappings == 2
\* camera heights are 0..MaxCamY
MaxCamY == 2

(***************************************************************************)
(* String helpers                                                          *)
(***************************************************************************)
LowerLetters == <<"a","b","c","d","e","f","g","h","i","j","k","l","m",
                  "n","o","p","q","r","s","t","u","v","w","x","y","z">>
UpperLetters == <<"A","B","C","D","E","F","G","H","I","J","K","L","M",
                  "N","O","P","Q","R","S","T","U","V","W","X","Y","Z">>

charToUpper(c) ==
    IF \E i \in 1..Len(LowerLetters) : LowerLetters[i] = c
    THEN UpperLetters[CHOOSE i \in 1..Len(LowerLetters) : LowerLetters[i] = c]
    ELSE c

charToLower(c) ==
    IF \E i \in 1..Len(UpperLetters) : UpperLetters[i] = c
    THEN LowerLetters[CHOOSE i \in 1..Len(UpperLetters) : UpperLetters[i] = c]
    ELSE c

toUpperCase(s) == [i \in 1..Len(s) |-> charToUpper(s[i])]
toLowerCase(s) == [i \in 1..Len(s) |-> charToLower(s[i])]
startsWith(s, p) == Len(s) >= Len(p) /\ SubSeq(s, 1, Len(p)) = p
endsWith(s, p) == Len(s) >= Len(p) /\ SubSeq(s, Len(s) - Len(p) + 1, Len(s)) = p
includes(list, x) == \E i \in 1..Len(list) : list[i] = x
\* the function f as an explicit table of its values

(***************************************************************************)
(* Model ids and the variant-sharing convention                            *)
(***************************************************************************)
Id29  == <<"2", ".", "9">>
Id29E == <<"2", ".", "9", "E">>
Id33  == <<"3", ".", "3">>
Id33E == <<"3", ".", "3", "E">>
DEFAULT_MODEL_IDS == <<Id29, Id29E, Id33, Id33E>>
ModelIds == {DEFAULT_MODEL_IDS[i] : i \in 1..Len(DEFAULT_MODEL_IDS)}

getBaseModelId_keepSuffix(mid) == mid

\* mid.replace(/E$/, '')
getBaseModelId(mid) ==
    IF endsWith(mid, <<"E">>) THEN SubSeq(mid, 1, Len(mid) - 1) ELSE mid

isElectricModel_lowercase(mid) == endsWith(mid, <<"e">>)

\* mid.endsWith('E')
isElectricModel(mid) == endsWith(mid, <<"E">>)

\* 2.9/2.9E use 29.glb, 3.3/3.3E use 33.glb
resolveModelPath(mid) == IF startsWith(mid, Id29) THEN "29" ELSE "33"
ModelPaths == {"29", "33"}

(***************************************************************************)
(* Per-model mesh allowlists (the literal tables of BoatViewer.tsx; the    *)
(* entries for 2.9E and 3.3E repeat those of 2.9 and 3.3)                  *)
(***************************************************************************)

MATERIAL_MESHES_BY_MODEL_29 ==
    <<<<"m","e","s","h","1","7","0","0">>,
      <<"m","e","s","h","1","6","7","7">>,
      <<"m","e","s","h","1","6","7","6">>,
      <<"m","e","s","h","1","6","7","5">>,
      <<"m","e","s","h","1","6","7","4">>,
      <<"m","e","s","h","1","7","0","1">>,
      <<"m","e","s","h","1","6","7","3">>,
      <<"m","e","s","h","1","6","7","2">>,
      <<"m","e","s","h","1","7","0","2">>,
      <<"m","e","s","h","1","6","7","1">>,
      <<"m","e","s","h","1","6","7","0">>>>

MATERIAL_MESHES_BY_MODEL_33 ==
    <<<<"m","e","s","h","9","8">>,
      <<"m","e","s","h","1","0","5">>,
      <<"m","e","s","h","1","0","2","3">>,
      <<"m","e","s","h","1","3","4">>,
      <<"m","e","s","h","1","3","5">>,
      <<"m","e","s","h","3","2">>,
      <<"m","e","s","h","3","4">>,
      <<"m","e","s","h","3","5">>,
      <<"m","e","s","h","2","0">>,
      <<"m","e","s","h","3","6">>,
      <<"m","e","s","h","3","7">>>>

\* MATERIAL_MESHES_BY_MODEL[mid] || []
MATERIAL_MESHES_BY_MODEL(mid) ==
    IF mid \in {Id29, Id29E} THEN MATERIAL_MESHES_BY_MODEL_29
    ELSE IF mid \in {Id33, Id33E} THEN MATERIAL_MESHES_BY_MODEL_33
    ELSE <<>>

SOFT_DECK_MESHES_BY_MODEL_29 ==
    <<<<"m","e","s","h","3","0","4">>,
      <<"m","e","s","h","3","0","5">>,
      <<"m","e","s","h","1","7","1","2">>,
      <<"m","e","s","h","1","6">>,
      <<"m","e","s","h","2","9","3">>,
      <<"m","e","s","h","1","7","0","9">>,
      <<"m","e","s","h","6">>,
      <<"m","e","s","h","5">>,
      <<"m","e","s","h","1","7","1","0">>,
      <<"m","e","s","h","8">>,
      <<"m","e","s","h","7">>>>

SOFT_DECK_MESHES_BY_MODEL_33 ==
    <<<<"m","e","s","h","9","8","3">>,
      <<"m","e","s","h","9","8","4">>,
      <<"m","e","s","h","1","0","4","2">>,
      <<"m","e","s","h","1","0","4","0">>,
      <<"m","e","s","h","1","0","4","3">>,
      <<"m","e","s","h","1","0","4","4">>,
      <<"m","e","s","h","1","0","5","7">>,
      <<"m","e","s","h","1","0","5","5">>,
      <<"m","e","s","h","1","0","5","6">>,
      <<"m","e","s","h","1","0","5","4">>,
      <<"m","e","s","h","1","0","5","3">>>>

\* SOFT_DECK_MESHES_BY_MODEL[mid] || []
SOFT_DECK_MESHES_BY_MODEL(mid) ==
    IF mid \in {Id29, Id29E} THEN SOFT_DECK_MESHES_BY_MODEL_29
    ELSE IF mid \in {Id33, Id33E} THEN SOFT_DECK_MESHES_BY_MODEL_33
    ELSE <<>>

STRIP_MESHES_BY_MODEL_29 ==
    <<<<"m","e","s","h","0">>,
      <<"m","e","s","h","1">>,
      <<"m","e","s","h","1","7","1","1">>,
      <<"m","e","s","h","2">>,
      <<"m","e","s","h","3">>,
      <<"m","e","s","h","9">>,
      <<"m","e","s","h","1","4">>,
      <<"m","e","s","h","1","3">>,
      <<"m","e","s","h","1","7","1","3">>,
      <<"m","e","s","h","1","2">>,
      <<"m","e","s","h","1","1">>>>

STRIP_MESHES_BY_MODEL_33 ==
    <<<<"m","e","s","h","1","0","5","1">>,
      <<"m","e","s","h","1","0","5","0">>,
      <<"m","e","s","h","1","0","4","9">>,
      <<"m","e","s","h","1","0","4","8">>,
      <<"m","e","s","h","1","0","4","7">>,
      <<"m","e","s","h","1","0","5","2">>,
      <<"m","e","s","h","1","0","5","8">>,
      <<"m","e","s","h","1","0","5","9">>,
      <<"m","e","s","h","1","0","6","0">>,
      <<"m","e","s","h","1","0","6","1">>,
      <<"m","e","s","h","1","0","6","2">>>>

\* STRIP_MESHES_BY_MODEL[mid] || []
STRIP_MESHES_BY_MODEL(mid) ==
    IF mid \in {Id29, Id29E} THEN STRIP_MESHES_BY_MODEL_29
    ELSE IF mid \in {Id33, Id33E} THEN STRIP_MESHES_BY_MODEL_33
    ELSE <<>>

(***************************************************************************)
(* The scene assets.  29.glb and 33.glb are binary assets; the scene below *)
(* is a small tree carrying every kind of node the code distinguishes:     *)
(* the two hull material slots, the two auto-managed nodes (one a group    *)
(* with a child, one a mesh), mappable groups nested in one another, a     *)
(* depth mask detected by name and one detected by userData, and one mesh  *)
(* of each allowlist.  An unnamed root exercises the unnamed-node guard.   *)
(*                                                                         *)
(*   1 (unnamed root)                                                      *)
(*     2 hull   [hull_white]      3 keel [hull_grey]                       *)
(*     4 cabin                                                             *)
(*         5 el_motor                                                      *)
(*             6 motor_body [metal]                                        *)
(*         7 rack                                                          *)
(*             8 seat [fabric]    9 Water_Occluder_1 [lid]                 *)
(*         10 battary_V_4_new [metal]   11 lid (userData.depthMask = 1)    *)
(*     12 material-type mesh [body] 13 soft-deck mesh [deck]               *)
(*     14 strip mesh [strip]                                               *)
(***************************************************************************)
NumNodes == 14
Nodes == 1..NumNodes

N_el_motor        == <<"e","l","_","m","o","t","o","r">>
N_battary_V_4_new == <<"b","a","t","t","a","r","y","_","V","_","4","_","n","e","w">>
N_WATER_OCCLUDER  == <<"W","A","T","E","R","_","O","C","C","L","U","D","E","R">>
N_hull  == <<"h","u","l","l">>
N_keel  == <<"k","e","e","l">>
N_cabin == <<"c","a","b","i","n">>
N_rack  == <<"r","a","c","k">>
N_seat  == <<"s","e","a","t">>
N_lid   == <<"l","i","d">>
N_motor_body == <<"m","o","t","o","r","_","b","o","d","y">>
N_occluder1  == <<"W","a","t","e","r","_","O","c","c","l","u","d","e","r","_","1">>

M_hull_white == <<"h","u","l","l","_","w","h","i","t","e">>
M_hull_grey  == <<"h","u","l","l","_","g","r","e","y">>
M_Hull_White == <<"H","u","l","l","_","W","h","i","t","e">>
M_Hull_Grey  == <<"H","u","l","l","_","G","r","e","y">>
M_metal  == <<"m","e","t","a","l">>
M_fabric == <<"f","a","b","r","i","c">>
M_lid    == <<"l","i","d">>
M_body   == <<"b","o","d","y">>
M_deck   == <<"d","e","c","k">>
M_strip  == <<"s","t","r","i","p">>
NoMaterial == <<>>

SceneParent == <<0, 1, 1, 1, 4, 5, 4, 7, 7, 4, 4, 1, 1, 1>>
SceneRoot == 1
SceneIsMesh ==
    <<FALSE, TRUE, TRUE, FALSE, FALSE, TRUE, FALSE, TRUE, TRUE, TRUE, TRUE, TRUE, TRUE, TRUE>>
\* userData.depthMask as authored ("" when absent)
SceneUserDataDepthMask == [n \in Nodes |-> IF n = 11 THEN "1" ELSE ""]

\* node names of the asset at modelPath p
SceneName(p) ==
    <<<<>>, N_hull, N_keel, N_cabin, N_el_motor, N_motor_body, N_rack, N_seat,
      N_occluder1, N_battary_V_4_new, N_lid,
      IF p = "29" THEN MATERIAL_MESHES_BY_MODEL_29[1] ELSE MATERIAL_MESHES_BY_MODEL_33[1],
      IF p = "29" THEN SOFT_DECK_MESHES_BY_MODEL_29[1] ELSE SOFT_DECK_MESHES_BY_MODEL_33[1],
      IF p = "29" THEN STRIP_MESHES_BY_MODEL_29[1] ELSE STRIP_MESHES_BY_MODEL_33[1]>>

\* name of the material each mesh of the asset is bound to as authored
SceneMaterial(p) ==
    <<NoMaterial,
      IF p = "29" THEN M_hull_white ELSE M_Hull_White,
      IF p = "29" THEN M_hull_grey ELSE M_Hull_Grey,
      NoMaterial, NoMaterial, M_metal, NoMaterial, M_fabric, M_lid, M_metal, M_lid,
      M_body, M_deck, M_strip>>

MaterialNames(p) == {SceneMaterial(p)[n] : n \in Nodes} \ {NoMaterial}

\* colour a material has in the file as authored
AuthoredColor(p, m) ==
    IF toLowerCase(m) = M_hull_white
    THEN (IF p = "29" THEN "29.glb/hull_white" ELSE "33.glb/hull_white")
    ELSE IF toLowerCase(m) = M_hull_grey
    THEN (IF p = "29" THEN "29.glb/hull_grey" ELSE "33.glb/hull_grey")
    ELSE "authored"

\* children of a node, in the order Object3D.children holds them
Children(n) == SelectSeq([i \in 1..NumNodes |-> i], LAMBDA c : SceneParent[c] = n)

RECURSIVE IsAncestorOrSelf(_, _)
IsAncestorOrSelf(a, n) ==
    IF n = a THEN TRUE
    ELSE IF SceneParent[n] = 0 THEN FALSE
    ELSE IsAncestorOrSelf(a, SceneParent[n])

Subtree(a) == {n \in Nodes : IsAncestorOrSelf(a, n)}

RECURSIVE traverse(_), traverseAll(_)
\* Object3D.traverse: the object itself, then each child's traversal in order
traverse(n) == <<n>> \o traverseAll(Children(n))
traverseAll(cs) ==
    IF cs = <<>> THEN <<>> ELSE traverse(Head(cs)) \o traverseAll(Tail(cs))

\* the order in which scene.traverse visits the nodes, and each node's subtree
SceneOrder == traverse(SceneRoot)
SubtreeOf == ([a \in Nodes |-> Subtree(a)] @@ <<>>)
SceneNames == ([p \in ModelPaths |-> SceneName(p)] @@ <<>>)

(***************************************************************************)
(* Scene load: clone, depth masks, shadows                                 *)
(***************************************************************************)
StandardMaterial(name) ==
    [type |-> "MeshStandardMaterial", name |-> name,
     colorWrite |-> TRUE, depthWrite |-> TRUE, depthTest |-> TRUE]
NoMeshMaterial ==
    [type |-> "none", name |-> NoMaterial,
     colorWrite |-> TRUE, depthWrite |-> TRUE, depthTest |-> TRUE]
\* new THREE.MeshBasicMaterial({colorWrite: false, depthWrite: true, depthTest: true, ...})
DepthMaskMaterial ==
    [type |-> "MeshBasicMaterial", name |-> NoMaterial,
     colorWrite |-> FALSE, depthWrite |-> TRUE, depthTest |-> TRUE]

MASK_RENDER_ORDER == 50
WATER_RENDER_ORDER == 100

byUserData(n) == SceneUserDataDepthMask[n] \in {"1", "true"}
byName(p, n) == startsWith(toUpperCase(SceneName(p)[n]), N_WATER_OCCLUDER)

\* originalScene.clone(true): node flags and material bindings as authored
cloneScene(p) ==
    [visible     |-> [n \in Nodes |-> TRUE],
     castShadow  |-> [n \in Nodes |-> FALSE],
     material    |-> [n \in Nodes |->
                        IF SceneIsMesh[n] THEN StandardMaterial(SceneMaterial(p)[n])
                        ELSE NoMeshMaterial],
     renderOrder |-> [n \in Nodes |-> 0]]

applyDepthMasks_userDataOnly(p, sc) ==
    [sc EXCEPT
       !.material = [n \in Nodes |->
           IF SceneIsMesh[n] /\ byUserData(n) THEN DepthMaskMaterial ELSE sc.material[n]],
       !.renderOrder = [n \in Nodes |->
           IF SceneIsMesh[n] /\ byUserData(n) THEN MASK_RENDER_ORDER ELSE sc.renderOrder[n]]]

\* applyDepthMasks(root): every detected mesh gets the mask material and render order
applyDepthMasks(p, sc) ==
    [sc EXCEPT
       !.material = [n \in Nodes |->
           IF SceneIsMesh[n] /\ (byUserData(n) \/ byName(p, n))
           THEN DepthMaskMaterial ELSE sc.material[n]],
       !.renderOrder = [n \in Nodes |->
           IF SceneIsMesh[n] /\ (byUserData(n) \/ byName(p, n))
           THEN MASK_RENDER_ORDER ELSE sc.renderOrder[n]]]

\* "Shadows disabled": every mesh of the fresh scene stops casting shadows
disableShadows(sc) ==
    [sc EXCEPT !.castShadow = [n \in Nodes |-> IF SceneIsMesh[n] THEN FALSE ELSE @[n]]]

\* the scene BoatModel works on after a (re)load of modelPath p
loadScene(p) == disableShadows(applyDepthMasks(p, cloneScene(p)))
LoadedScenes == ([p \in ModelPaths |-> loadScene(p)] @@ <<>>)

(***************************************************************************)
(* Visibility controller                                                   *)
(***************************************************************************)
NoOption == ""

\* the depth-mask test of setGroupVisibility
isDepthMask(p, n) ==
    \/ SceneUserDataDepthMask[n] \in {"1", "true"}
    \/ startsWith(toUpperCase(SceneName(p)[n]), N_WATER_OCCLUDER)

\* the test, for every node of each asset
DepthMaskNodes == ([p \in ModelPaths |-> ([n \in Nodes |-> isDepthMask(p, n)] @@ <<>>)] @@ <<>>)

setGroupVisibility_shadowAll(p, sc, object, visible) ==
    [sc EXCEPT
       !.visible = ([n \in Nodes |-> IF n \in SubtreeOf[object] THEN visible ELSE @[n]] @@ <<>>),
       !.castShadow = ([n \in Nodes |->
           IF n \in SubtreeOf[object] /\ SceneIsMesh[n] THEN visible ELSE @[n]] @@ <<>>)]

setGroupVisibility_selfOnly(p, sc, object, visible) ==
    [sc EXCEPT
       !.visible = [@ EXCEPT ![object] = visible],
       !.castShadow = [@ EXCEPT ![object] =
           IF SceneIsMesh[object] /\ ~DepthMaskNodes[p][object] THEN visible ELSE @]]

\* setGroupVisibility(object, visible): the object and all its descendants
setGroupVisibility(p, sc, object, visible) ==
    [sc EXCEPT
       !.visible = ([n \in Nodes |-> IF n \in SubtreeOf[object] THEN visible ELSE @[n]] @@ <<>>),
       !.castShadow = ([n \in Nodes |->
           IF n \in SubtreeOf[object] /\ SceneIsMesh[n] /\ ~DepthMaskNodes[p][n]
           THEN visible ELSE @[n]] @@ <<>>)]

\* groupVisibilityMappings.find(m => m.groupName === childName && m.modelId === baseModel):
\* index of the first match, 0 when there is none
findMapping(mappings, childName, baseModel) ==
    IF \E i \in 1..Len(mappings) :
          mappings[i].groupName = childName /\ mappings[i].modelId = baseModel
    THEN CHOOSE i \in 1..Len(mappings) :
          /\ mappings[i].groupName = childName /\ mappings[i].modelId = baseModel
          /\ \A j \in 1..(i - 1) :
                ~(mappings[j].groupName = childName /\ mappings[j].modelId = baseModel)
    ELSE 0

resolveMapping_neverShown(mapping, selectedOptions) ==
    ~mapping.hiddenByDefault

resolveMapping_anySelected(mapping, selectedOptions) ==
    IF mapping.hiddenByDefault
    THEN (IF mapping.linkedOptionId # NoOption THEN Len(selectedOptions) > 0 ELSE FALSE)
    ELSE TRUE

\* the visibility a found mapping resolves to
resolveMapping(mapping, selectedOptions) ==
    IF mapping.hiddenByDefault
    THEN (IF mapping.linkedOptionId # NoOption
          THEN includes(selectedOptions, mapping.linkedOptionId)
          ELSE FALSE)
    ELSE TRUE

\* what the traversal callback decides for a node name: "skip" (unnamed),
\* "auto" (auto-managed), "none" (no mapping), or the mapping's visibility
resolveNode(childName, mid, mappings, selectedOptions) ==
    IF childName = <<>> THEN "skip"
    ELSE IF childName = N_el_motor \/ childName = N_battary_V_4_new THEN "auto"
    ELSE LET i == findMapping(mappings, childName, getBaseModelId(mid)) IN
         IF i = 0 THEN "none"
         ELSE IF resolveMapping(mappings[i], selectedOptions) THEN "show" ELSE "hide"

visitNode_mappingFirst(p, sc, child, mid, mappings, selectedOptions) ==
    LET childName == SceneNames[p][child]
        i == findMapping(mappings, childName, getBaseModelId(mid)) IN
    IF childName = <<>> THEN sc
    ELSE IF i # 0
    THEN setGroupVisibility(p, sc, child, resolveMapping(mappings[i], selectedOptions))
    ELSE IF childName = N_el_motor \/ childName = N_battary_V_4_new
    THEN setGroupVisibility(p, sc, child, isElectricModel(mid))
    ELSE sc

\* the callback of scene.traverse in the visibility effect
visitNode(p, sc, child, mid, mappings, selectedOptions) ==
    LET r == resolveNode(SceneNames[p][child], mid, mappings, selectedOptions) IN
    IF r = "auto" THEN setGroupVisibility(p, sc, child, isElectricModel(mid))
    ELSE IF r = "show" THEN setGroupVisibility(p, sc, child, TRUE)
    ELSE IF r = "hide" THEN setGroupVisibility(p, sc, child, FALSE)
    ELSE sc

RECURSIVE visitAll(_, _, _, _, _, _)
visitAll(p, sc, order, mid, mappings, selectedOptions) ==
    IF order = <<>> THEN sc
    ELSE visitAll(p, visitNode(p, sc, Head(order), mid, mappings, selectedOptions),
                  Tail(order), mid, mappings, selectedOptions)

\* the visibility effect: one traversal of the scene
visibilityEffect(p, sc, mid, mappings, selectedOptions) ==
    visitAll(p, sc, SceneOrder, mid, mappings, selectedOptions)

(***************************************************************************)
(* Material mapping engine                                                 *)
(***************************************************************************)
Unset == "unset"
FALLBACK_WHITE == "#ECECE8"
FALLBACK_GREY  == "#9EA0A1"
FULL_CARBON_COLOR == "#0A0C10"
FIBERGLASS_COLOR  == "#C7C7C7"

KEY_SANDSTONE == <<"#","9","D","6","2","2","B","F","F">>
KEY_SOFTGREY  == <<"#","B","C","B","C","B","C","F","F">>
KEY_RED       == <<"#","9","5","0","7","0","B","F","F">>
\* colorKey = undefined
NoSoftDeckColor == <<>>

isHullMaterial(m) == toLowerCase(m) = M_hull_white \/ toLowerCase(m) = M_hull_grey
\* the materials of each asset that the code takes for hull slots
HullMaterials == ([p \in ModelPaths |-> {m \in MaterialNames(p) : isHullMaterial(m)}] @@ <<>>)

RECURSIVE collectOriginal(_, _, _, _, _)
collectOriginal(p, sc, colors, order, acc) ==
    IF order = <<>> THEN acc
    ELSE LET n == Head(order)
             mat == sc.material[n]
             matName == IF mat.name \in HullMaterials[p] THEN toLowerCase(mat.name)
                        ELSE mat.name
             acc1 ==
               IF ~SceneIsMesh[n] \/ mat.type # "MeshStandardMaterial" THEN acc
               ELSE IF matName = M_hull_white /\ acc.white = Unset
               THEN [acc EXCEPT !.white = colors[mat.name]]
               ELSE IF matName = M_hull_grey /\ acc.grey = Unset
               THEN [acc EXCEPT !.grey = colors[mat.name]]
               ELSE acc
         IN collectOriginal(p, sc, colors, Tail(order), acc1)

\* "Collect original hull colors once when scene loads": the ref is reset and
\* the first hull_white / hull_grey material met in the traversal is recorded
snapshotEffect(p, sc, colors) ==
    collectOriginal(p, sc, colors, SceneOrder, [white |-> Unset, grey |-> Unset])

hullColor_ignoreCustom(cfg, orig) ==
    IF cfg.hullColorMode = "white"
    THEN (IF orig.white # Unset THEN orig.white ELSE FALLBACK_WHITE)
    ELSE (IF orig.grey # Unset THEN orig.grey ELSE FALLBACK_GREY)

hullColor_ignoreMode(cfg, orig) ==
    IF cfg.useCustomColor THEN cfg.color
    ELSE IF orig.white # Unset THEN orig.white ELSE FALLBACK_WHITE

\* colour the hull rule writes into a hull slot
hullColor(cfg, orig) ==
    IF cfg.useCustomColor THEN cfg.color
    ELSE LET whiteColor == IF orig.white # Unset THEN orig.white ELSE FALLBACK_WHITE
             greyColor  == IF orig.grey # Unset THEN orig.grey ELSE FALLBACK_GREY
         IN IF cfg.hullColorMode = "white" THEN whiteColor ELSE greyColor

materialTypeColor_swapped(materialType) ==
    IF materialType = "fullCarbon" THEN FIBERGLASS_COLOR ELSE FULL_CARBON_COLOR

\* colour the material-type rule writes
materialTypeColor(materialType) ==
    IF materialType = "fullCarbon" THEN FULL_CARBON_COLOR ELSE FIBERGLASS_COLOR

softDeckPair_caseSensitive(colorKey) ==
    LET sel == colorKey IN
    IF sel = KEY_SANDSTONE THEN [deck |-> "#9D622B", strip |-> "#FFFDFC"]
    ELSE IF sel = KEY_SOFTGREY THEN [deck |-> "#939393", strip |-> "#FFFDFC"]
    ELSE IF sel = KEY_RED THEN [deck |-> "#939393", strip |-> "#95070B"]
    ELSE [deck |-> "#9D622B", strip |-> "#FFFDFC"]

\* (softDeckHex, stripHex) selected by colorKey.toUpperCase()
softDeckPair(colorKey) ==
    LET sel == toUpperCase(colorKey) IN
    IF sel = KEY_SANDSTONE THEN [deck |-> "#9D622B", strip |-> "#FFFDFC"]
    ELSE IF sel = KEY_SOFTGREY THEN [deck |-> "#939393", strip |-> "#FFFDFC"]
    ELSE IF sel = KEY_RED THEN [deck |-> "#939393", strip |-> "#95070B"]
    ELSE [deck |-> "#9D622B", strip |-> "#FFFDFC"]

lowered(list) == [i \in 1..Len(list) |-> toLowerCase(list[i])]

inMaterialList(meshName, mid) ==
    /\ includes(MATERIAL_MESHES_BY_MODEL(mid), meshName)
    /\ ~includes(lowered(SOFT_DECK_MESHES_BY_MODEL(mid)), meshName)
    /\ ~includes(lowered(STRIP_MESHES_BY_MODEL(mid)), meshName)
inSoftDeckList(meshName, mid) ==
    includes(lowered(SOFT_DECK_MESHES_BY_MODEL(mid)), meshName)
inStripList(meshName, mid) ==
    includes(lowered(STRIP_MESHES_BY_MODEL(mid)), meshName)

\* whether each rule applies to a mesh, per model id and asset
\* (meshName = child.name.toLowerCase())
MaterialTypeMeshes ==
    [t \in ModelIds \X ModelPaths \X Nodes |->
        inMaterialList(toLowerCase(SceneName(t[2])[t[3]]), t[1])] @@ <<>>
SoftDeckMeshes ==
    [t \in ModelIds \X ModelPaths \X Nodes |->
        inSoftDeckList(toLowerCase(SceneName(t[2])[t[3]]), t[1])] @@ <<>>
StripMeshes ==
    [t \in ModelIds \X ModelPaths \X Nodes |->
        inStripList(toLowerCase(SceneName(t[2])[t[3]]), t[1])] @@ <<>>

\* the callback of scene.traverse in the material effect, for one mesh
paintMesh(p, sc, colors, n, cfg, orig) ==
    LET mat == sc.material[n]
        key == <<cfg.modelId, p, n>>
        c1 == IF mat.name \in HullMaterials[p]
              THEN [colors EXCEPT ![mat.name] = hullColor(cfg, orig)] ELSE colors
        c2 == IF MaterialTypeMeshes[key]
              THEN [c1 EXCEPT ![mat.name] = materialTypeColor(cfg.materialType)] ELSE c1
        c3 == IF cfg.softDeckColor # NoSoftDeckColor /\ SoftDeckMeshes[key]
              THEN [c2 EXCEPT ![mat.name] = softDeckPair(cfg.softDeckColor).deck] ELSE c2
        c4 == IF cfg.softDeckColor # NoSoftDeckColor /\ StripMeshes[key]
              THEN [c3 EXCEPT ![mat.name] = softDeckPair(cfg.softDeckColor).strip] ELSE c3
    IN IF ~SceneIsMesh[n] \/ mat.type # "MeshStandardMaterial" THEN colors ELSE c4

RECURSIVE paintAll(_, _, _, _, _, _)
paintAll(p, sc, colors, order, cfg, orig) ==
    IF order = <<>> THEN colors
    ELSE paintAll(p, sc, paintMesh(p, sc, colors, Head(order), cfg, orig),
                  Tail(order), cfg, orig)

\* the material effect: one traversal of the scene
materialEffect(p, sc, colors, cfg, orig) ==
    paintAll(p, sc, colors, SceneOrder, cfg, orig)

\* metalness, roughness, opacity and transparent of a material as the file
\* holds them (not touched by any rule)
AuthoredSurface ==
    [metalness |-> "authored", roughness |-> "authored",
     opacity |-> "authored", transparent |-> "authored"]
\* mat.metalness = 0.5; mat.roughness = 0.5; mat.opacity = 1.0; mat.transparent = false
MATERIAL_TYPE_SURFACE ==
    [metalness |-> "0.5", roughness |-> "0.5", opacity |-> "1.0", transparent |-> "false"]
\* mat.metalness = 0; mat.roughness = 1; mat.opacity = 1.0; mat.transparent = false
SOFT_DECK_SURFACE ==
    [metalness |-> "0", roughness |-> "1", opacity |-> "1.0", transparent |-> "false"]

\* the same callback, for the surface properties it assigns next to the
\* colour: the hull rule assigns none, the material-type rule and the two
\* soft-deck rules assign all four
surfaceMesh(p, sc, surfaces, n, cfg) ==
    LET mat == sc.material[n]
        key == <<cfg.modelId, p, n>>
        s2 == IF MaterialTypeMeshes[key]
              THEN [surfaces EXCEPT ![mat.name] = MATERIAL_TYPE_SURFACE] ELSE surfaces
        s3 == IF cfg.softDeckColor # NoSoftDeckColor /\ SoftDeckMeshes[key]
              THEN [s2 EXCEPT ![mat.name] = SOFT_DECK_SURFACE] ELSE s2
        s4 == IF cfg.softDeckColor # NoSoftDeckColor /\ StripMeshes[key]
              THEN [s3 EXCEPT ![mat.name] = SOFT_DECK_SURFACE] ELSE s3
    IN IF ~SceneIsMesh[n] \/ mat.type # "MeshStandardMaterial" THEN surfaces ELSE s4

RECURSIVE surfaceAll(_, _, _, _, _)
surfaceAll(p, sc, surfaces, order, cfg) ==
    IF order = <<>> THEN surfaces
    ELSE surfaceAll(p, sc, surfaceMesh(p, sc, surfaces, Head(order), cfg),
                    Tail(order), cfg)

\* the material effect's traversal, for the surface properties
surfaceEffect(p, sc, surfaces, cfg) ==
    surfaceAll(p, sc, surfaces, SceneOrder, cfg)

(***************************************************************************)
(* Admin sandbox (DevSettingsPage): the model load effect                  *)
(***************************************************************************)
MaxLoads == 2

\* the nodes buildNodeTree keeps: it returns null for a depth-mask mesh, so
\* the mesh and everything below it are left out
RECURSIVE inNodeTree(_, _)
inNodeTree(p, n) ==
    /\ ~(SceneIsMesh[n] /\ (byUserData(n) \/ byName(p, n)))
    /\ (n = SceneRoot \/ inNodeTree(p, SceneParent[n]))

\* buildNodeTree(gltf.scene)?.children: the names of the kept nodes below the root
buildNodeTree(p) ==
    {SceneName(p)[n] : n \in {k \in Nodes : k # SceneRoot /\ inNodeTree(p, k)}}

\* materialNamesSet: the named standard materials of the kept meshes
collectMaterialNames(p) ==
    {SceneMaterial(p)[n] : n \in {k \in Nodes : SceneIsMesh[k] /\ inNodeTree(p, k)
                                                  /\ SceneMaterial(p)[k] # NoMaterial}}

NoHierarchy == {}

\* the sequence without its i-th element
removeAt(seq, i) == [k \in 1..(Len(seq) - 1) |-> IF k < i THEN seq[k] ELSE seq[k + 1]]

(***************************************************************************)
(* A render that throws.  useGLTF throws the loader's error from BoatModel's *)
(* render; React hands it to the nearest error boundary above.              *)
(***************************************************************************)
\* the components above BoatModel, innermost first
ViewerAncestors ==
    <<"BoatWithRocking", "Suspense", "Canvas", "BoatViewer", "ConfiguratorContent", "App">>

\* the error boundaries among them that keep an error: Suspense catches
\* promises only, and Canvas throws again what its own boundary caught
ErrorBoundaries == {}

RECURSIVE handledBy(_)
\* the first error boundary from position k on; "root" when there is none,
\* and React then unmounts the whole tree
handledBy(k) ==
    IF k > Len(ViewerAncestors) THEN "root"
    ELSE IF ViewerAncestors[k] \in ErrorBoundaries THEN ViewerAncestors[k]
    ELSE handledBy(k + 1)

NoError == <<>>

(***************************************************************************)
(* Settings payloads (visualization_settings rows).  A payload is a record; *)
(* a key the stored JSON lacks is a field the record lacks.                 *)
(***************************************************************************)
MaxMaterialMappings == 2

\* null: no active row, or the service caught an error
Null == <<>>

hasKey(payload, key) == payload # Null /\ key \in DOMAIN payload

\* a sample of DEFAULT_ENVIRONMENT: fogNear, fogFar, environmentPreset,
\* waterColor, and waterSpeed in thousandths (0.156)
DEFAULT_ENVIRONMENT ==
    [fogNear |-> 6, fogFar |-> 35, environmentPreset |-> "sunset",
     waterColor |-> "#0b4f65", waterSpeed |-> 156]
StoredEnvironment ==
    [fogNear |-> 8, fogFar |-> 40, environmentPreset |-> "dawn",
     waterColor |-> "#0b4f65", waterSpeed |-> 200]
\* settings of an environment preset kept in localStorage by the sandbox
PresetSettings == [fogNear |-> 10, waterColor |-> "#114455"]

\* {...DEFAULT_ENVIRONMENT, ...environment}
environmentConfig(environment) ==
    IF environment = Null THEN DEFAULT_ENVIRONMENT
    ELSE [k \in DOMAIN DEFAULT_ENVIRONMENT \cup DOMAIN environment |->
             IF k \in DOMAIN environment THEN environment[k] ELSE DEFAULT_ENVIRONMENT[k]]

\* useState<EnvironmentSettings | null>(null): the value the mount render,
\* and with it the closure of the mount effect, holds
MountEnvironmentOverrides == Null

\* {...DEFAULT_ENVIRONMENT, ...(envPreset ? envPreset.settings : {}),
\*  ...(boatPreset?.environment ?? {})}, or null without either
mergedEnvironment(envPreset, boatPreset) ==
    IF envPreset = Null /\ ~hasKey(boatPreset, "environment") THEN Null
    ELSE LET first == IF envPreset = Null THEN DEFAULT_ENVIRONMENT
                      ELSE environmentConfig(envPreset.settings)
         IN IF hasKey(boatPreset, "environment")
            THEN [k \in DOMAIN first \cup DOMAIN boatPreset.environment |->
                     IF k \in DOMAIN boatPreset.environment
                     THEN boatPreset.environment[k] ELSE first[k]]
            ELSE first

\* the dependencies of OceanWater's useMemo that the sample holds: a change
\* of one of them builds a new Water object
waterMemoDeps(environment) == <<environmentConfig(environment).waterColor>>

\* uniforms.time of the Water object after a commit: a Water object starts
\* at time 0, and the element exists only while it is rendered
waterTimeAfter(uniformTime, wasMounted, isMounted, oldEnvironment, newEnvironment) ==
    IF ~isMounted THEN 0
    ELSE IF ~wasMounted \/ waterMemoDeps(newEnvironment) # waterMemoDeps(oldEnvironment)
    THEN 0
    ELSE uniformTime

\* envData of the 'environment' row
EnvironmentPayloads == {Null, [updatedBy |-> "admin"], [environment |-> StoredEnvironment]}

\* loadDefaultEnvironment: envData?.environment
defaultEnvironmentOf(envData) ==
    IF hasKey(envData, "environment") THEN envData.environment ELSE Null

\* settings_data of the 'materials' row: each mapping with or without variants
MaterialVariantLists == {<<>>, <<[name |-> "Teak", hex |-> "#8B5A2B"]>>}
MaterialMappingRecords ==
    [materialName : {M_deck, M_body}, variants : MaterialVariantLists]
    \cup [materialName : {M_deck, M_body}]
MaterialPayloads ==
    {Null, [updatedBy |-> "admin"]}
    \cup {[mappings |-> t] :
             t \in UNION {[1..k -> MaterialMappingRecords] : k \in 0..MaxMaterialMappings}}

toCollection_dropVariants(mapping) ==
    [id |-> mapping.materialName, name |-> mapping.materialName,
     materials |-> <<mapping.materialName>>, variants |-> <<>>]

\* the collection built from one material mapping; mapping.variants.map(...)
\* needs the variants key
toCollection(mapping) ==
    [id |-> mapping.materialName, name |-> mapping.materialName,
     materials |-> <<mapping.materialName>>,
     variants |-> [k \in 1..Len(mapping.variants) |->
                     [id |-> <<mapping.materialName, k - 1>>,
                      label |-> mapping.variants[k].name,
                      mode |-> "color",
                      color |-> mapping.variants[k].hex]]]

\* materialSettings.mappings.map(...): a TypeError is thrown at the first
\* mapping without variants (undefined.map)
mapThrows(mappings) == \E k \in 1..Len(mappings) : "variants" \notin DOMAIN mappings[k]

(***************************************************************************)
(* Admin sandbox: the group visibility table                               *)
(***************************************************************************)
\* a mapping written without modelId (JSON drops the undefined field)
NoModelId == <<>>

\* the names of the kept nodes in the order collectNames meets them
hierarchyNames(p) ==
    LET kept == SelectSeq(SceneOrder, LAMBDA k : k # SceneRoot /\ inNodeTree(p, k))
    IN [k \in 1..Len(kept) |-> SceneName(p)[kept[k]]]

RECURSIVE appendMissing(_, _)
\* "Initialize group mappings from scene hierarchy": a mapping without modelId,
\* not hidden and not linked, for every name that no mapping carries yet
appendMissing(prev, names) ==
    IF names = <<>> THEN prev
    ELSE IF Head(names) = <<>> \/ \E k \in 1..Len(prev) : prev[k].groupName = Head(names)
    THEN appendMissing(prev, Tail(names))
    ELSE appendMissing(Append(prev, [groupName |-> Head(names), modelId |-> NoModelId,
                                     hiddenByDefault |-> FALSE, linkedOptionId |-> ""]),
                       Tail(names))

\* the material names of the kept meshes in the order the loader's traversal
\* adds them to materialNamesSet
materialNameList(p) ==
    LET kept == SelectSeq(SceneOrder, LAMBDA k : SceneIsMesh[k] /\ inNodeTree(p, k)
                                                  /\ SceneMaterial(p)[k] # NoMaterial)
    IN [k \in 1..Len(kept) |-> SceneMaterial(p)[kept[k]]]

\* a collection of prevForModel lists the material name
existingByName(prevForModel, name) ==
    \E k \in 1..Len(prevForModel) : includes(prevForModel[k].materials, name)

RECURSIVE addMissingCollections(_, _, _)
\* "Only add materials that don't exist yet": [...prevForModel, ...additions],
\* one collection with the variant 'Original' for every material name that
\* no collection of prevForModel lists (createId() gives the ids)
addMissingCollections(prevForModel, result, names) ==
    IF names = <<>> THEN result
    ELSE IF existingByName(prevForModel, Head(names))
            \/ \E k \in 1..Len(result) : result[k].name = Head(names)
    THEN addMissingCollections(prevForModel, result, Tail(names))
    ELSE addMissingCollections(prevForModel,
             Append(result, [id |-> "createId()", name |-> Head(names),
                             materials |-> <<Head(names)>>,
                             variants |-> <<[id |-> "createId()", label |-> "Original"]>>]),
             Tail(names))

\* handleGroupHiddenChange: update the mapping of (groupName, baseModel), or
\* create one when hiding
groupHiddenChange(prev, groupName, hidden, baseModel) ==
    LET existingIndex == findMapping(prev, groupName, baseModel)
    IN IF existingIndex > 0
       THEN [prev EXCEPT ![existingIndex].hiddenByDefault = hidden]
       ELSE IF hidden
       THEN Append(prev, [groupName |-> groupName, modelId |-> baseModel,
                          hiddenByDefault |-> hidden, linkedOptionId |-> ""])
       ELSE prev

\* handleGroupOptionChange: update the link of the mapping of (groupName,
\* baseModel), or create a mapping with hiddenByDefault: false when linking
groupOptionChange(prev, groupName, optionId, baseModel) ==
    LET existingIndex == findMapping(prev, groupName, baseModel)
    IN IF existingIndex > 0
       THEN [prev EXCEPT ![existingIndex].linkedOptionId = optionId]
       ELSE IF optionId # ""
       THEN Append(prev, [groupName |-> groupName, modelId |-> baseModel,
                          hiddenByDefault |-> FALSE, linkedOptionId |-> optionId])
       ELSE prev

\* node names the sandbox's visibility controls are used on
SandboxGroupNames == {N_cabin}

(***************************************************************************)
(* Orbit target.  Lengths are in thousandths of a scene unit.              *)
(***************************************************************************)
MaxPan == 39

\* const targetY = 0.3
TARGET_Y == 300

\* dampingFactor={0.05}, in percent
DAMPING_PERCENT == 5

\* the offset one pan gesture adds along the camera's right and up axes
\* (screenSpacePanning) before the next frame
PanDelta == [x |-> 20, y |-> 20, z |-> 20]
ZeroVector == [x |-> 0, y |-> 0, z |-> 0]

\* Box3.setFromObject(scene).getCenter: the horizontal centre of each asset
sceneCenter(p) ==
    IF p = resolveModelPath(Id29) THEN [x |-> 30, z |-> -20] ELSE [x |-> 0, z |-> 10]

\* the first three statements of the useFrame callback: x and z from
\* targetCenterRef (|| 0 leaves a number as it is), y pinned to targetY
recenter(tgt, center) == [x |-> center.x, y |-> TARGET_Y, z |-> center.z]

\* the part of a pending offset that one update() applies with damping on
damped(v) == (v * DAMPING_PERCENT) \div 100

\* controls.update() with enableDamping: the target moves by the damped part
\* of the pending pan offset, and that part leaves the offset
updateTarget(tgt, pan) ==
    [x |-> tgt.x + damped(pan.x), y |-> tgt.y + damped(pan.y), z |-> tgt.z + damped(pan.z)]
updatePanOffset(pan) ==
    [x |-> pan.x - damped(pan.x), y |-> pan.y - damped(pan.y), z |-> pan.z - damped(pan.z)]

(***************************************************************************)
(* Rocking animator (BoatWithRocking).  Angles are in micro-radians, the    *)
(* vertical offset in hundredths, elapsed time in whole seconds.            *)
(***************************************************************************)
MaxClock == 3
ClockSamples == 0..MaxClock

OCEAN_Y == 32
DRY_DOCK_Y == 34

\* Math.sin(t * 1.2) * 0.0075 at the sampled times
pitchWave(t) == (<<0, 6990, 5066, -3319>>)[t + 1]

\* Math.cos(t * 1.1) * 0.00625 at the sampled times
rollWave(t) == (<<6250, 2835, -3678, -6172>>)[t + 1]

\* useMemo(() => 0, [])
pitchOffset == 0

rockingPose_alwaysOcean(mode, t) ==
    [y |-> OCEAN_Y, pitch |-> pitchOffset + pitchWave(t), roll |-> rollWave(t)]

\* the useFrame callback of BoatWithRocking: boat.position.y,
\* pitchGroup.rotation.x and boat.rotation.z for this frame
rockingPose(mode, t) ==
    IF mode = "ocean"
    THEN [y |-> OCEAN_Y, pitch |-> pitchOffset + pitchWave(t), roll |-> rollWave(t)]
    ELSE [y |-> DRY_DOCK_Y, pitch |-> pitchOffset, roll |-> 0]

\* const isDryDock = waveMode === 'dry-dock': selects the camera bound
\* profile and the background
isDryDock(mode) == mode = "dry-dock"

\* {waveMode === 'ocean' && <OceanWater />}
oceanWaterMounted(mode) == mode = "ocean"

NoFrame == <<>>
NoPending == <<>>

(***************************************************************************)
(* State                                                                   *)
(***************************************************************************)
VARIABLES
    \* ConfigurationContext: configuration.modelId / materialId / optionIds
    modelId, materialId, optionIds,
    \* ConfiguratorContent state
    useCustomHullColor, hullColorMode, customHullColor, softDeckColor,
    groupVisibilityMappings, settingsLoaded,
    \* BoatModel: the cloned scene (node flags, mesh materials, render order)
    scene,
    \* colour of every material object of each cached asset; Mesh.copy keeps
    \* the material reference, so a clone's meshes use these same objects
    matColor,
    \* metalness, roughness, opacity and transparent of the same material objects
    matSurface,
    \* BoatModel: originalColors ref
    originalColors,
    \* OrbitControlsWrapper: rmbActiveRef, initialCameraYRef, controller flags
    rmbActive, initialCameraY, enableRotate, enableZoom, enablePan,
    \* camera.position.y, and the height of the camera in the last frame drawn
    \* since the right button last went down (NoCameraY: none drawn yet)
    cameraY, drawnCameraY,
    \* the pointer: is the right button physically down, and the camera height
    \* at the moment it went down
    buttonHeld, pressCameraY

\* configuration.waveMode, the OceanWater element, and the boat groups that the
\* rocking animator writes every frame
VARIABLES waveMode, waterSurface, elapsedTime, boatY, pitch, roll, drawnBoat,
          \* uniforms.time of OceanWater's Water object, in thousandths
          waterTime

\* DevSettingsPage: modelId, the GLTFLoader loads in flight (each with its
\* AbortController's signal), and the lists filled by the load callbacks
VARIABLES devModelId, devLoads, sceneHierarchy, materialNames, objectNames,
          \* DevSettingsPage: its mapping table, and the table stored by Save
          devMappings, savedMappings

\* DevSettingsPage: materialCollectionsByModel, environment, how the mount
\* effect's loadSettings ended, and the two payloads it fetched
VARIABLES materialCollectionsByModel, devEnvironment, devSettingsOutcome,
          devFetchedGroups, devFetchedMaterials

\* React scheduling: the props for which BoatModel's passive effects last ran
\* while a later commit's effects are still scheduled (NoPending otherwise),
\* and what the last frame drawn showed
VARIABLES pendingEffects, drawnView

\* what is left of the viewer after a render ("showing" the boat, or
\* "unmounted" by React), and the error that left BoatViewer uncaught
VARIABLES viewerStatus, uncaughtError

\* ConfiguratorContent: environmentOverrides, materialCollectionsOverride, the
\* material payload the loader fetched, and how the async loader ended
VARIABLES environmentOverrides, materialCollectionsOverride, fetchedMaterials,
          settingsOutcome

\* targetCenterRef (set by onCenterComputed), and OrbitControls: its target,
\* the pan offset not yet applied, and the target in the last frame drawn
VARIABLES targetCenter, orbitTarget, panOffset, drawnTarget

\* which dependency made BoatModel's centre effect run when it last called
\* onCenterComputed: "scene" (a new clone) or "callback" (only the identity
\* of the onCenterComputed prop changed)
VARIABLES centerEffectCause

\* ConfigurationContext: configuration.colour
VARIABLES colour
orderVars == <<colour>>

\* the table visualization_settings, oldest row first (created_at ascending),
\* and what the last save and the last load of the service returned
VARIABLES visualizationRows, saveReturned, loadReturned
storeVars == <<visualizationRows, saveReturned, loadReturned>>

configVars == <<modelId, materialId, optionIds, useCustomHullColor, hullColorMode,
                customHullColor, softDeckColor, groupVisibilityMappings, settingsLoaded>>
viewVars == <<scene, matColor, matSurface, originalColors, targetCenter,
              centerEffectCause>>
cameraVars == <<rmbActive, initialCameraY, enableRotate, enableZoom, enablePan,
                cameraY, drawnCameraY, buttonHeld, pressCameraY>>
waveVars == <<waveMode, waterSurface, elapsedTime, boatY, pitch, roll, drawnBoat,
              waterTime>>
devStoreVars == <<devEnvironment, devSettingsOutcome, devFetchedGroups,
                  devFetchedMaterials>>
devVars == <<devModelId, devLoads, sceneHierarchy, materialNames, objectNames,
            devMappings, savedMappings, materialCollectionsByModel, devStoreVars>>
frameVars == <<pendingEffects, drawnView>>
failVars == <<viewerStatus, uncaughtError>>
settingsVars == <<environmentOverrides, materialCollectionsOverride, fetchedMaterials,
                  settingsOutcome>>
orbitVars == <<orbitTarget, panOffset, drawnTarget>>
vars == <<configVars, viewVars, cameraVars, waveVars, devVars, frameVars, failVars,
          settingsVars, orbitVars, orderVars, storeVars>>

(***************************************************************************)
(* Inputs                                                                  *)
(***************************************************************************)
SOFT_DECK == "soft-deck"
MOTOR_UPGRADE == "10.5kw-motor"
\* the options the Options accordion lists for the selected model
optionListed(optionId, mid) == ~(optionId = MOTOR_UPGRADE /\ ~endsWith(mid, <<"E">>))

\* a catalog as loadCatalog delivers it (the rows are data of the product
\* service): a base price per model and material, one of them with a trade
\* price, the options' prices and the custom colour's price
SampleCatalog ==
    [basePrices |->
        <<[modelId |-> Id29, materialId |-> "fiberglass", amountUsd |-> 20000],
          [modelId |-> Id29, materialId |-> "fullCarbon", amountUsd |-> 30000,
           tradePrice |-> 28000],
          [modelId |-> Id29E, materialId |-> "fiberglass", amountUsd |-> 25000],
          [modelId |-> Id29E, materialId |-> "fullCarbon", amountUsd |-> 35000],
          [modelId |-> Id33, materialId |-> "fiberglass", amountUsd |-> 24000],
          [modelId |-> Id33, materialId |-> "fullCarbon", amountUsd |-> 34000],
          [modelId |-> Id33E, materialId |-> "fiberglass", amountUsd |-> 29000],
          [modelId |-> Id33E, materialId |-> "fullCarbon", amountUsd |-> 39000]>>,
     options |-> <<[id |-> SOFT_DECK, priceUsd |-> 900],
                   [id |-> MOTOR_UPGRADE, priceUsd |-> 2500]>>,
     customColor |-> [priceUsd |-> 700]]

\* getBasePrice: priceEntry?.tradePrice ?? priceEntry?.amountUsd of the first
\* entry found, as <<price>>, or <<>> for undefined
getBasePrice(catalog, mid, mat) ==
    LET found == SelectSeq(catalog.basePrices,
                           LAMBDA e : e.modelId = mid /\ e.materialId = mat)
    IN IF found = <<>> THEN <<>>
       ELSE IF "tradePrice" \in DOMAIN found[1] THEN <<found[1].tradePrice>>
       ELSE <<found[1].amountUsd>>

\* getOption: the first option with the id, as <<option>>, or <<>>
getOption(catalog, optionId) == SelectSeq(catalog.options, LAMBDA o : o.id = optionId)

RECURSIVE sumOptions(_, _)
\* the loop of calculatePrice over configuration.optionIds
sumOptions(catalog, ids) ==
    IF ids = <<>> THEN 0
    ELSE (IF getOption(catalog, Head(ids)) # <<>>
          THEN getOption(catalog, Head(ids))[1].priceUsd ELSE 0)
         + sumOptions(catalog, Tail(ids))

\* calculatePrice(catalog, configuration)
calculatePrice(catalog, configuration) ==
    LET basePrice == IF getBasePrice(catalog, configuration.modelId,
                                     configuration.materialId) = <<>>
                     THEN 0
                     ELSE getBasePrice(catalog, configuration.modelId,
                                       configuration.materialId)[1]
        customColorPrice == IF configuration.colour.type = "custom"
                            THEN catalog.customColor.priceUsd ELSE 0
        optionsTotal == sumOptions(catalog, configuration.optionIds) + customColorPrice
    IN [basePrice |-> basePrice, optionsTotal |-> optionsTotal,
        customColorPrice |-> customColorPrice, total |-> basePrice + optionsTotal]

\* ConfiguratorContent: priceBreakdown.total after "Add custom hull color
\* price if enabled", the amount shown before discount, tax and shipping
subtotalShown(catalog, configuration, customEnabled) ==
    calculatePrice(catalog, configuration).total
    + (IF customEnabled THEN catalog.customColor.priceUsd ELSE 0)

\* .update({ is_active: false }).eq('admin_id', adminId).eq('settings_type', t)
deactivateRows(rows, adminId, settingsType) ==
    [i \in DOMAIN rows |->
        IF rows[i].admin_id = adminId /\ rows[i].settings_type = settingsType
        THEN [rows[i] EXCEPT !.is_active = FALSE] ELSE rows[i]]

\* .insert({ admin_id, settings_type, settings_data, is_active: true })
insertRow(rows, adminId, settingsType, settingsData) ==
    Append(rows, [admin_id |-> adminId, settings_type |-> settingsType,
                  settings_data |-> settingsData, is_active |-> TRUE])

\* .select('*').eq('settings_type', t).eq('is_active', true)
\* .order('created_at', { ascending: false }).limit(1).single(): the newest
\* active row's settings_data; no row is error PGRST116, answered with null
selectActive(rows, settingsType) ==
    LET hits == {i \in DOMAIN rows : rows[i].settings_type = settingsType
                                      /\ rows[i].is_active}
    IN IF hits = {} THEN Null
       ELSE rows[CHOOSE i \in hits : \A k \in hits : k <= i].settings_data

\* the two statements of a save function: the update, whose result is not
\* looked at, then the insert, whose error makes the function return false
saveRows(rows, adminId, settingsType, settingsData, updateApplied, insertApplied) ==
    LET updated == IF updateApplied THEN deactivateRows(rows, adminId, settingsType)
                   ELSE rows
    IN IF insertApplied THEN insertRow(updated, adminId, settingsType, settingsData)
       ELSE updated

\* option ids of the catalog (an external collaborator)
CatalogOptionIds == {SOFT_DECK, "bimini"}
MaterialIds == {"fiberglass", "fullCarbon"}
\* values of the colour picker
CustomHexes == {"#FF6B00", "#1E90FF"}
\* softDeckColor values: the three keys of the buttons and, the prop of
\* BoatViewer being any string, a key in another letter case and a key that
\* is none of the three
KEY_red_lower == <<"#","9","5","0","7","0","b","f","f">>
KEY_UNKNOWN   == <<"#","0","0","0","0","0","0","F","F">>
SoftDeckKeys == {KEY_SANDSTONE, KEY_SOFTGREY, KEY_RED, KEY_red_lower, KEY_UNKNOWN}

\* group names and settings a stored mapping may carry
MappingGroupNames == {N_cabin, N_rack, N_el_motor}
MappingRecords ==
    [groupName : MappingGroupNames, modelId : {Id29, Id33},
     hiddenByDefault : {TRUE}, linkedOptionId : CatalogOptionIds \cup {NoOption}]
    \cup
    [groupName : MappingGroupNames, modelId : {Id29, Id33},
     hiddenByDefault : {FALSE}, linkedOptionId : {NoOption}]
MappingTables == UNION {[1..k -> MappingRecords] : k \in 0..MaxMappings}
\* the tables with at most one mapping: one for the cabin group of model 2.9
CabinTables ==
    {<<>>} \cup {<<r>> : r \in {x \in MappingRecords : x.groupName = N_cabin /\ x.modelId = Id29}}

\* the tables with at most one mapping
SingleMappingTables == {t \in MappingTables : Len(t) <= 1}

\* settings_data of the 'groups' row
GroupPayloads == {Null, [updatedBy |-> "admin"]} \cup {[mappings |-> t] : t \in CabinTables}

NoCameraY == -1
CameraHeights == 0..MaxCamY
\* height level of the camera as mounted (position [4, 2.5, 4])
INITIAL_CAMERA_Y == 1

(***************************************************************************)
(* Rendering BoatViewer: props, and the effects a commit runs              *)
(***************************************************************************)
\* the props ConfiguratorContent passes to BoatViewer
viewerProps(m, mat, opts, custom, mode, hex, deck, mappings) ==
    [modelId |-> m,
     color |-> IF custom THEN hex ELSE "#FFFFFF",
     materialType |-> mat,
     useCustomColor |-> custom,
     hullColorMode |-> mode,
     softDeckColor |-> IF includes(opts, SOFT_DECK) THEN deck ELSE NoSoftDeckColor,
     groupVisibilityMappings |-> mappings,
     selectedOptions |-> opts]

\* the view after BoatModel's first render with props cfg
mountView(cfg, colors, surfaces) ==
    LET p   == resolveModelPath(cfg.modelId)
        sc  == LoadedScenes[p]
        org == snapshotEffect(p, sc, colors[p])
        col == [colors EXCEPT ![p] = materialEffect(p, sc, colors[p], cfg, org)]
    IN [scene |-> visibilityEffect(p, sc, cfg.modelId, cfg.groupVisibilityMappings,
                                   cfg.selectedOptions),
        matColor |-> col,
        matSurface |-> [surfaces EXCEPT ![p] = surfaceEffect(p, sc, surfaces[p], cfg)],
        originalColors |-> org]

\* the view after a re-render from props old to props new: the scene is cloned
\* anew when modelPath changed, and each effect runs when one of its
\* dependencies changed
commitView(old, new, view) ==
    LET p      == resolveModelPath(new.modelId)
        reload == p # resolveModelPath(old.modelId)
        sc1    == IF reload THEN LoadedScenes[p] ELSE view.scene
        org    == IF reload THEN snapshotEffect(p, sc1, view.matColor[p])
                  ELSE view.originalColors
        matDeps == \/ reload
                   \/ new.color # old.color
                   \/ new.useCustomColor # old.useCustomColor
                   \/ new.hullColorMode # old.hullColorMode
                   \/ new.softDeckColor # old.softDeckColor
                   \/ new.materialType # old.materialType
                   \/ new.modelId # old.modelId
        visDeps == \/ reload
                   \/ isElectricModel(new.modelId) # isElectricModel(old.modelId)
                   \/ new.groupVisibilityMappings # old.groupVisibilityMappings
                   \/ new.selectedOptions # old.selectedOptions
        col    == IF matDeps
                  THEN [view.matColor EXCEPT
                          ![p] = materialEffect(p, sc1, view.matColor[p], new, org)]
                  ELSE view.matColor
        srf    == IF matDeps
                  THEN [view.matSurface EXCEPT
                          ![p] = surfaceEffect(p, sc1, view.matSurface[p], new)]
                  ELSE view.matSurface
        sc2    == IF visDeps
                  THEN visibilityEffect(p, sc1, new.modelId, new.groupVisibilityMappings,
                                        new.selectedOptions)
                  ELSE sc1
    IN [scene |-> sc2, matColor |-> col, matSurface |-> srf, originalColors |-> org]

\* the centre effect's dependencies are [scene, onCenterComputed];
\* BoatViewer passes a new arrow function in every render, so the effect runs
\* after every commit, with or without a new scene
centerEffect(oldPath, newPath) == IF newPath # oldPath THEN "scene" ELSE "callback"

CurrentProps ==
    viewerProps(modelId, materialId, optionIds, useCustomHullColor, hullColorMode,
                customHullColor, softDeckColor, groupVisibilityMappings)

\* re-render of the viewer after the state change of a handler
Rerender ==
    LET new == viewerProps(modelId', materialId', optionIds', useCustomHullColor',
                           hullColorMode', customHullColor', softDeckColor',
                           groupVisibilityMappings')
    IN \E v \in {commitView(CurrentProps, new,
                              [scene |-> scene, matColor |-> matColor, matSurface |-> matSurface,
                               originalColors |-> originalColors])} :
       /\ scene' = v.scene
       /\ matColor' = v.matColor
       /\ matSurface' = v.matSurface
       /\ originalColors' = v.originalColors
       /\ targetCenter' = sceneCenter(resolveModelPath(new.modelId))
       /\ centerEffectCause' = centerEffect(resolveModelPath(modelId),
                                            resolveModelPath(new.modelId))

(***************************************************************************)
(* Initial state: DEFAULT_CONFIG, the useState defaults, the viewer        *)
(* mounted on it, OrbitControls as constructed                             *)
(***************************************************************************)
AuthoredColors == [p \in ModelPaths |-> [m \in MaterialNames(p) |-> AuthoredColor(p, m)]]
AuthoredSurfaces == [p \in ModelPaths |-> [m \in MaterialNames(p) |-> AuthoredSurface]]

Init ==
    /\ modelId = Id29
    /\ materialId = "fiberglass"
    /\ optionIds = <<SOFT_DECK>>
    /\ useCustomHullColor = FALSE
    /\ hullColorMode = "white"
    /\ customHullColor = "#FF6B00"
    /\ softDeckColor = KEY_SANDSTONE
    /\ groupVisibilityMappings = <<>>
    /\ settingsLoaded = FALSE
    /\ LET v == mountView(viewerProps(Id29, "fiberglass", <<SOFT_DECK>>, FALSE, "white",
                                      "#FF6B00", KEY_SANDSTONE, <<>>), AuthoredColors,
                         AuthoredSurfaces)
       IN /\ scene = v.scene
          /\ matColor = v.matColor
          /\ matSurface = v.matSurface
          /\ originalColors = v.originalColors
    /\ centerEffectCause = "scene"
    /\ colour = [type |-> "palette", value |-> "white-grey"]
    /\ visualizationRows = <<>>
    /\ saveReturned = Null
    /\ loadReturned = Null
    /\ rmbActive = FALSE
    /\ initialCameraY = NoCameraY
    /\ enableRotate = TRUE
    /\ enableZoom = TRUE
    /\ enablePan = TRUE
    /\ cameraY = INITIAL_CAMERA_Y
    /\ drawnCameraY = NoCameraY
    /\ buttonHeld = FALSE
    /\ pressCameraY = NoCameraY
    /\ waveMode = "ocean"
    /\ waterTime = 0
    /\ waterSurface = oceanWaterMounted("ocean")
    /\ elapsedTime = 0
    /\ boatY = 0
    /\ pitch = 0
    /\ roll = 0
    /\ drawnBoat = NoFrame
    /\ devModelId = Id29
    /\ devLoads = <<[model |-> Id29, aborted |-> FALSE]>>
    /\ sceneHierarchy = NoHierarchy
    /\ materialNames = {}
    /\ objectNames = {}
    /\ devMappings = <<>>
    /\ savedMappings = Null
    /\ materialCollectionsByModel = [id \in ModelIds |-> <<>>]
    /\ devEnvironment = DEFAULT_ENVIRONMENT
    /\ devSettingsOutcome = "pending"
    /\ devFetchedGroups = Null
    /\ devFetchedMaterials = Null
    /\ pendingEffects = NoPending
    /\ drawnView = NoFrame
    /\ viewerStatus = "showing"
    /\ uncaughtError = NoError
    /\ environmentOverrides = Null
    /\ materialCollectionsOverride = Null
    /\ fetchedMaterials = Null
    /\ settingsOutcome = "pending"
    /\ targetCenter = sceneCenter(resolveModelPath(Id29))
    /\ orbitTarget = [x |-> 0, y |-> TARGET_Y, z |-> 0]
    /\ panOffset = ZeroVector
    /\ drawnTarget = NoFrame

(***************************************************************************)
(* Configuration handlers                                                  *)
(***************************************************************************)
\* the model radio buttons: setModel(model.id)
setModel(m) ==
    /\ m # modelId
    /\ modelId' = m
    /\ UNCHANGED <<materialId, optionIds, useCustomHullColor, hullColorMode,
                   customHullColor, softDeckColor, groupVisibilityMappings, settingsLoaded>>
    /\ Rerender
    /\ UNCHANGED <<cameraVars, waveVars, devVars, frameVars, failVars, settingsVars, orbitVars, orderVars, storeVars>>

\* the material radio buttons: setMaterial(material.id)
setMaterial(mat) ==
    /\ mat # materialId
    /\ materialId' = mat
    /\ UNCHANGED <<modelId, optionIds, useCustomHullColor, hullColorMode,
                   customHullColor, softDeckColor, groupVisibilityMappings, settingsLoaded>>
    /\ Rerender
    /\ UNCHANGED <<cameraVars, waveVars, devVars, frameVars, failVars, settingsVars, orbitVars, orderVars, storeVars>>

\* toggleOption(optionId): remove the id when present, append it otherwise
toggleOption(optionId) ==
    /\ optionListed(optionId, modelId)
    /\ optionIds' = IF includes(optionIds, optionId)
                    THEN SelectSeq(optionIds, LAMBDA id : id # optionId)
                    ELSE Append(optionIds, optionId)
    /\ UNCHANGED <<modelId, materialId, useCustomHullColor, hullColorMode,
                   customHullColor, softDeckColor, groupVisibilityMappings, settingsLoaded>>
    /\ Rerender
    /\ UNCHANGED <<cameraVars, waveVars, devVars, frameVars, failVars, settingsVars, orbitVars, orderVars, storeVars>>

\* the Grey and White buttons
selectHullColorMode(mode) ==
    /\ ~(useCustomHullColor = FALSE /\ hullColorMode = mode
         /\ colour = [type |-> "palette", value |-> mode])
    /\ useCustomHullColor' = FALSE
    /\ hullColorMode' = mode
    /\ UNCHANGED <<modelId, materialId, optionIds, customHullColor, softDeckColor,
                   groupVisibilityMappings, settingsLoaded>>
    /\ Rerender
    /\ UNCHANGED <<cameraVars, waveVars, devVars, frameVars, failVars, settingsVars, orbitVars>>
    /\ UNCHANGED storeVars
    /\ colour' = [type |-> "palette", value |-> mode]

\* the "Custom hull color" checkbox
toggleCustomHullColor ==
    /\ useCustomHullColor' = ~useCustomHullColor
    /\ UNCHANGED <<modelId, materialId, optionIds, hullColorMode, customHullColor,
                   softDeckColor, groupVisibilityMappings, settingsLoaded>>
    /\ Rerender
    /\ UNCHANGED <<cameraVars, waveVars, devVars, frameVars, failVars, settingsVars, orbitVars>>
    /\ UNCHANGED storeVars
    /\ colour' = IF useCustomHullColor'
                 THEN [type |-> "custom", value |-> customHullColor]
                 ELSE [type |-> "palette", value |-> hullColorMode]

\* the colour picker, shown while the checkbox is ticked
pickCustomHullColor(hex) ==
    /\ useCustomHullColor
    /\ hex # customHullColor
    /\ customHullColor' = hex
    /\ UNCHANGED <<modelId, materialId, optionIds, useCustomHullColor, hullColorMode,
                   softDeckColor, groupVisibilityMappings, settingsLoaded>>
    /\ Rerender
    /\ UNCHANGED <<cameraVars, waveVars, devVars, frameVars, failVars, settingsVars, orbitVars>>
    /\ UNCHANGED storeVars
    /\ colour' = [type |-> "custom", value |-> hex]

\* the soft-deck colour buttons, shown while the soft-deck option is selected
setSoftDeckColor(key) ==
    /\ includes(optionIds, SOFT_DECK)
    /\ key # softDeckColor
    /\ softDeckColor' = key
    /\ UNCHANGED <<modelId, materialId, optionIds, useCustomHullColor, hullColorMode,
                   customHullColor, groupVisibilityMappings, settingsLoaded>>
    /\ Rerender
    /\ UNCHANGED <<cameraVars, waveVars, devVars, frameVars, failVars, settingsVars, orbitVars, orderVars, storeVars>>

\* the Ocean / Dry Dock buttons: setWaveMode(mode).  The viewer re-renders with
\* the same model props, so no effect of BoatModel runs again; the OceanWater
\* element is mounted or unmounted by the conditional in BoatViewer
setWaveMode(mode) ==
    /\ mode # waveMode
    /\ waveMode' = mode
    /\ waterSurface' = oceanWaterMounted(mode)
    /\ drawnBoat' = NoFrame
    /\ waterTime' = waterTimeAfter(waterTime, waterSurface, waterSurface',
                                   environmentOverrides, environmentOverrides)
    /\ UNCHANGED <<elapsedTime, boatY, pitch, roll>>
    /\ UNCHANGED <<configVars, viewVars, cameraVars, devVars, frameVars, failVars, settingsVars, orbitVars, orderVars, storeVars>>

\* the whole async loadVisualizationSettings for the three fetched payloads:
\* group mappings, default environment, material colours, in this order; an
\* exception in the third part rejects the promise, which nothing awaits
loadVisualizationPayloads(groups, envData, materials) ==
    /\ ~settingsLoaded
    /\ settingsLoaded' = TRUE
    /\ groupVisibilityMappings' =
          IF hasKey(groups, "mappings") THEN groups.mappings ELSE groupVisibilityMappings
    /\ environmentOverrides' =
          IF defaultEnvironmentOf(envData) # Null /\ MountEnvironmentOverrides = Null
          THEN defaultEnvironmentOf(envData) ELSE environmentOverrides
    /\ fetchedMaterials' = materials
    /\ IF hasKey(materials, "mappings") /\ mapThrows(materials.mappings)
       THEN /\ settingsOutcome' = "rejected"
            /\ UNCHANGED materialCollectionsOverride
       ELSE /\ settingsOutcome' = "completed"
            /\ materialCollectionsOverride' =
                  IF hasKey(materials, "mappings") /\ Len(materials.mappings) > 0
                  THEN [k \in 1..Len(materials.mappings) |-> toCollection(materials.mappings[k])]
                  ELSE materialCollectionsOverride
    /\ UNCHANGED <<modelId, materialId, optionIds, useCustomHullColor, hullColorMode,
                   customHullColor, softDeckColor>>
    /\ Rerender
    /\ waterTime' = waterTimeAfter(waterTime, waterSurface, waterSurface,
                                   environmentOverrides, environmentOverrides')
    /\ UNCHANGED <<waveMode, waterSurface, elapsedTime, boatY, pitch, roll, drawnBoat>>
    /\ UNCHANGED <<cameraVars, devVars, frameVars, failVars, orbitVars, orderVars, storeVars>>

\* applyPresetsFromStorage, run by a 'storage' event, with the active
\* environment preset and the active boat preset found in localStorage (Null:
\* none), and the effect on activeBoatPreset that follows it: setModel,
\* setMaterial, setColour and setWaveMode
applyPresetsFromStorage(envPreset, boatPreset) ==
    /\ environmentOverrides' = mergedEnvironment(envPreset, boatPreset)
    /\ materialCollectionsOverride' =
          IF boatPreset # Null THEN boatPreset.materialVariantCollections ELSE Null
    /\ modelId' = IF boatPreset # Null THEN boatPreset.modelId ELSE modelId
    /\ materialId' = IF boatPreset # Null THEN boatPreset.materialType ELSE materialId
    /\ waveMode' = IF boatPreset # Null THEN boatPreset.waveMode ELSE waveMode
    /\ waterSurface' = oceanWaterMounted(waveMode')
    /\ drawnBoat' = IF waveMode' # waveMode THEN NoFrame ELSE drawnBoat
    /\ waterTime' = waterTimeAfter(waterTime, waterSurface, waterSurface',
                                   environmentOverrides, environmentOverrides')
    /\ UNCHANGED <<optionIds, useCustomHullColor, hullColorMode, customHullColor,
                   softDeckColor, groupVisibilityMappings, settingsLoaded>>
    /\ Rerender
    /\ UNCHANGED <<elapsedTime, boatY, pitch, roll, fetchedMaterials, settingsOutcome>>
    /\ UNCHANGED <<cameraVars, devVars, frameVars, failVars, orbitVars>>
    /\ UNCHANGED storeVars
    /\ colour' = IF boatPreset # Null /\ boatPreset.hullColor # ""
                 THEN [type |-> "custom", value |-> boatPreset.hullColor]
                 ELSE colour

\* loadVisualizationSettings when only the 'groups' row is stored: the fetched
\* mappings replace the table
loadVisualizationSettings(mappings) ==
    loadVisualizationPayloads([mappings |-> mappings], Null, Null)

\* BoatViewer is rendered again with another groupVisibilityMappings array (a
\* dependency of the visibility effect): mappings added, edited or removed
mappingsPropChanged(mappings) ==
    /\ mappings # groupVisibilityMappings
    /\ groupVisibilityMappings' = mappings
    /\ UNCHANGED <<modelId, materialId, optionIds, useCustomHullColor, hullColorMode,
                   customHullColor, softDeckColor, settingsLoaded>>
    /\ Rerender
    /\ UNCHANGED <<cameraVars, waveVars, devVars, frameVars, failVars, settingsVars, orbitVars, orderVars, storeVars>>

(***************************************************************************)
(* Camera / interaction controller                                         *)
(***************************************************************************)
\* onDown with e.button === 2, delivered to the canvas
onDown ==
    /\ ~buttonHeld
    /\ buttonHeld' = TRUE
    /\ pressCameraY' = cameraY
    /\ rmbActive' = TRUE
    /\ enableRotate' = FALSE
    /\ enableZoom' = FALSE
    /\ enablePan' = TRUE
    /\ initialCameraY' = IF initialCameraY = NoCameraY THEN cameraY ELSE initialCameraY
    /\ drawnCameraY' = NoCameraY
    /\ UNCHANGED cameraY
    /\ UNCHANGED <<configVars, viewVars, waveVars, devVars, frameVars, failVars, settingsVars, orbitVars, orderVars, storeVars>>

\* onUp with e.button === 2, delivered to the canvas
onUp ==
    /\ buttonHeld
    /\ buttonHeld' = FALSE
    /\ rmbActive' = FALSE
    /\ enableRotate' = TRUE
    /\ enableZoom' = TRUE
    /\ UNCHANGED <<enablePan, initialCameraY, cameraY, drawnCameraY, pressCameraY>>
    /\ UNCHANGED <<configVars, viewVars, waveVars, devVars, frameVars, failVars, settingsVars, orbitVars, orderVars, storeVars>>

\* the button is released where no mouseup/pointerup reaches the canvas
\* (pointer capture lost, window left): no handler of the component runs
releaseUndelivered ==
    /\ buttonHeld
    /\ buttonHeld' = FALSE
    /\ UNCHANGED <<rmbActive, enableRotate, enableZoom, enablePan, initialCameraY,
                   cameraY, drawnCameraY, pressCameraY>>
    /\ UNCHANGED <<configVars, viewVars, waveVars, devVars, frameVars, failVars, settingsVars, orbitVars, orderVars, storeVars>>

\* OrbitControls rotates or zooms the camera (left drag, wheel)
rotateOrZoom(y) ==
    /\ enableRotate \/ enableZoom
    /\ y # cameraY
    /\ cameraY' = y
    /\ UNCHANGED <<rmbActive, enableRotate, enableZoom, enablePan, initialCameraY,
                   drawnCameraY, buttonHeld, pressCameraY>>
    /\ UNCHANGED <<configVars, viewVars, waveVars, devVars, frameVars, failVars, settingsVars, orbitVars, orderVars, storeVars>>

\* OrbitControls pans in screen space while the right button is dragged
panDrag(y) ==
    /\ buttonHeld /\ enablePan
    /\ y # cameraY
    /\ panOffset.x + PanDelta.x <= MaxPan
    /\ cameraY' = y
    /\ panOffset' = [x |-> panOffset.x + PanDelta.x, y |-> panOffset.y + PanDelta.y,
                     z |-> panOffset.z + PanDelta.z]
    /\ UNCHANGED <<orbitTarget, drawnTarget>>
    /\ UNCHANGED <<rmbActive, enableRotate, enableZoom, enablePan, initialCameraY,
                   drawnCameraY, buttonHeld, pressCameraY>>
    /\ UNCHANGED <<configVars, viewVars, waveVars, devVars, frameVars, failVars, settingsVars, orderVars, storeVars>>

frameCameraY_unfrozen(active, initialY, y) == y

\* the camera-height part of the useFrame callback
frameCameraY(active, initialY, y) ==
    IF active /\ initialY # NoCameraY /\ y # initialY THEN initialY ELSE y

\* one frame at clock time t: the useFrame callbacks of OrbitControlsWrapper
\* (re-centre the target, freeze the camera height, controls.update()) and of
\* BoatWithRocking run, then the frame is drawn
frame(t) ==
    /\ viewerStatus # "unmounted"
    /\ t >= elapsedTime
    /\ elapsedTime' = t
    /\ cameraY' = frameCameraY(rmbActive, initialCameraY, cameraY)
    /\ drawnCameraY' = cameraY'
    /\ \E pose \in {rockingPose(waveMode, t)} :
          /\ boatY' = pose.y
          /\ pitch' = pose.pitch
          /\ roll' = pose.roll
          /\ drawnBoat' = [y |-> pose.y, pitch |-> pose.pitch, roll |-> pose.roll,
                           water |-> waterSurface]
    /\ waterTime' = IF waterSurface
                    THEN waterTime + (t - elapsedTime)
                                       * environmentConfig(environmentOverrides).waterSpeed
                    ELSE waterTime
    /\ UNCHANGED <<waveMode, waterSurface>>
    /\ UNCHANGED <<rmbActive, enableRotate, enableZoom, enablePan, initialCameraY,
                   buttonHeld, pressCameraY>>
    /\ drawnView' = [path |-> resolveModelPath(modelId), visible |-> scene.visible,
                     props |-> CurrentProps, effectProps |-> pendingEffects]
    /\ UNCHANGED pendingEffects
    /\ orbitTarget' = updateTarget(recenter(orbitTarget, targetCenter), panOffset)
    /\ panOffset' = updatePanOffset(panOffset)
    /\ drawnTarget' = orbitTarget'
    /\ UNCHANGED <<configVars, viewVars, devVars, failVars, settingsVars, orderVars, storeVars>>

(***************************************************************************)
(* Commits whose passive effects are deferred.  The material, snapshot and *)
(* visibility passes are useEffect callbacks: React runs them in a task of *)
(* their own after the commit, and the frame loop may draw in between.     *)
(***************************************************************************)
\* the model was switched and BoatModel commits for it (after useGLTF has
\* resolved when the asset differs): the fresh clone from useMemo is in the
\* scene graph, the effects are scheduled
sceneLoadCommit(m) ==
    /\ m # modelId
    /\ modelId' = m
    /\ scene' = IF resolveModelPath(m) # resolveModelPath(modelId)
                THEN LoadedScenes[resolveModelPath(m)] ELSE scene
    /\ pendingEffects' = IF pendingEffects = NoPending THEN CurrentProps ELSE pendingEffects
    /\ UNCHANGED <<matColor, matSurface, originalColors, targetCenter, centerEffectCause,
                   drawnView>>
    /\ UNCHANGED <<materialId, optionIds, useCustomHullColor, hullColorMode,
                   customHullColor, softDeckColor, groupVisibilityMappings, settingsLoaded>>
    /\ UNCHANGED <<cameraVars, waveVars, devVars, failVars, settingsVars, orbitVars, orderVars, storeVars>>

\* loadVisualizationSettings resolves and the viewer commits with the new table
settingsCommit(mappings) ==
    /\ ~settingsLoaded
    /\ settingsLoaded' = TRUE
    /\ groupVisibilityMappings' = mappings
    /\ pendingEffects' = IF pendingEffects = NoPending THEN CurrentProps ELSE pendingEffects
    /\ UNCHANGED <<modelId, materialId, optionIds, useCustomHullColor, hullColorMode,
                   customHullColor, softDeckColor>>
    /\ UNCHANGED <<viewVars, drawnView>>
    /\ UNCHANGED <<cameraVars, waveVars, devVars, failVars, settingsVars, orbitVars, orderVars, storeVars>>

\* React flushes the scheduled passive effects: every effect with a changed
\* dependency runs against the props of the last commit
flushPassiveEffects ==
    /\ pendingEffects # NoPending
    /\ \E v \in {commitView(pendingEffects, CurrentProps,
                             [scene |-> scene, matColor |-> matColor, matSurface |-> matSurface,
                              originalColors |-> originalColors])} :
          /\ scene' = v.scene
          /\ matColor' = v.matColor
          /\ matSurface' = v.matSurface
          /\ originalColors' = v.originalColors
    /\ targetCenter' = sceneCenter(resolveModelPath(modelId))
    /\ centerEffectCause' = centerEffect(resolveModelPath(pendingEffects.modelId),
                                         resolveModelPath(modelId))
    /\ pendingEffects' = NoPending
    /\ UNCHANGED <<configVars, drawnView>>
    /\ UNCHANGED <<cameraVars, waveVars, devVars, failVars, settingsVars, orbitVars, orderVars, storeVars>>

\* setModel(m) for a model whose asset fails to load (network or parse
\* error): the configuration holds m, BoatModel's render throws, and no
\* component up to the root keeps the error
assetLoadFails(m) ==
    /\ viewerStatus = "showing"
    /\ resolveModelPath(m) # resolveModelPath(modelId)
    /\ modelId' = m
    /\ IF handledBy(1) \in {"BoatWithRocking", "Suspense", "Canvas", "BoatViewer"}
       THEN viewerStatus' = "empty" /\ uncaughtError' = NoError
       ELSE viewerStatus' = "unmounted" /\ uncaughtError' = resolveModelPath(m)
    /\ UNCHANGED <<materialId, optionIds, useCustomHullColor, hullColorMode,
                   customHullColor, softDeckColor, groupVisibilityMappings, settingsLoaded>>
    /\ UNCHANGED <<viewVars, cameraVars, waveVars, devVars, frameVars, settingsVars, orbitVars, orderVars, storeVars>>

(***************************************************************************)
(* Admin sandbox handlers                                                  *)
(***************************************************************************)
\* the model selector: setModelId(event.target.value).  The effect's cleanup
\* aborts the controller of the previous load, then the effect starts a load
devSetModel(m) ==
    /\ m # devModelId
    /\ Len(devLoads) < MaxLoads
    /\ devModelId' = m
    /\ devLoads' = Append([k \in 1..Len(devLoads) |-> [devLoads[k] EXCEPT !.aborted = TRUE]],
                          [model |-> m, aborted |-> FALSE])
    /\ UNCHANGED <<sceneHierarchy, materialNames, objectNames, devMappings, savedMappings,
                   materialCollectionsByModel, devStoreVars>>
    /\ UNCHANGED <<configVars, viewVars, cameraVars, waveVars, frameVars, failVars, settingsVars, orbitVars, orderVars, storeVars>>

\* the load callback of the i-th load in flight: it returns at once when the
\* signal is aborted, otherwise it stores the hierarchy and the name lists
\* (objectNamesSet is never filled); the effect on sceneHierarchy then adds the
\* mappings of the names that have none
devLoadSucceeds(i) ==
    /\ i \in 1..Len(devLoads)
    /\ devLoads' = removeAt(devLoads, i)
    /\ IF devLoads[i].aborted
       THEN UNCHANGED <<sceneHierarchy, materialNames, objectNames, devMappings,
                        materialCollectionsByModel>>
       ELSE /\ sceneHierarchy' = buildNodeTree(resolveModelPath(devLoads[i].model))
            /\ materialCollectionsByModel' =
                  [materialCollectionsByModel EXCEPT ![devLoads[i].model] =
                      addMissingCollections(@, @,
                          materialNameList(resolveModelPath(devLoads[i].model)))]
            /\ materialNames' = collectMaterialNames(resolveModelPath(devLoads[i].model))
            /\ objectNames' = {}
            /\ devMappings' = appendMissing(devMappings,
                                  hierarchyNames(resolveModelPath(devLoads[i].model)))
    /\ UNCHANGED <<devModelId, savedMappings, devStoreVars>>
    /\ UNCHANGED <<configVars, viewVars, cameraVars, waveVars, frameVars, failVars, settingsVars, orbitVars, orderVars, storeVars>>

\* the error callback of the i-th load in flight: console.error, then both
\* name lists are cleared; the signal is not consulted
devLoadFails(i) ==
    /\ i \in 1..Len(devLoads)
    /\ devLoads' = removeAt(devLoads, i)
    /\ materialNames' = {}
    /\ objectNames' = {}
    /\ UNCHANGED <<devModelId, sceneHierarchy, devMappings, savedMappings,
                   materialCollectionsByModel, devStoreVars>>
    /\ UNCHANGED <<configVars, viewVars, cameraVars, waveVars, frameVars, failVars, settingsVars, orbitVars, orderVars, storeVars>>

\* the "Hidden by default" checkbox of the selected node
handleGroupHiddenChange(groupName, hidden) ==
    /\ groupName \in sceneHierarchy
    /\ devMappings' = groupHiddenChange(devMappings, groupName, hidden,
                                        getBaseModelId(devModelId))
    /\ UNCHANGED <<devModelId, devLoads, sceneHierarchy, materialNames, objectNames,
                   savedMappings, materialCollectionsByModel, devStoreVars>>
    /\ UNCHANGED <<configVars, viewVars, cameraVars, waveVars, frameVars, failVars, settingsVars, orbitVars, orderVars, storeVars>>

\* the "Link to catalog option" selector of the selected node ("" is None)
handleGroupOptionChange(groupName, optionId) ==
    /\ groupName \in sceneHierarchy
    /\ devMappings' = groupOptionChange(devMappings, groupName, optionId,
                                        getBaseModelId(devModelId))
    /\ UNCHANGED <<devModelId, devLoads, sceneHierarchy, materialNames, objectNames,
                   savedMappings, materialCollectionsByModel, devStoreVars>>
    /\ UNCHANGED <<configVars, viewVars, cameraVars, waveVars, frameVars, failVars, settingsVars, orbitVars, orderVars, storeVars>>

\* a "Reset" button of the model groups panel, enabled while the table holds
\* a mapping of that base model, with the confirm dialog accepted:
\* prev.filter(m => m.modelId !== resetModelId)
handleResetModelSettings(resetModelId) ==
    /\ \E k \in 1..Len(devMappings) : devMappings[k].modelId = resetModelId
    /\ devMappings' = SelectSeq(devMappings, LAMBDA mp : mp.modelId # resetModelId)
    /\ UNCHANGED <<devModelId, devLoads, sceneHierarchy, materialNames, objectNames,
                   savedMappings, materialCollectionsByModel, devStoreVars>>
    /\ UNCHANGED <<configVars, viewVars, cameraVars, waveVars, frameVars, failVars, settingsVars, orbitVars, orderVars, storeVars>>

\* the Save button: saveGroupVisibilitySettings({mappings: groupVisibilityMappings})
handleSaveGroupVisibility ==
    /\ savedMappings' = devMappings
    /\ UNCHANGED <<devModelId, devLoads, sceneHierarchy, materialNames, objectNames,
                   devMappings, materialCollectionsByModel, devStoreVars>>
    /\ UNCHANGED <<configVars, viewVars, cameraVars, waveVars, frameVars, failVars, settingsVars, orbitVars, orderVars, storeVars>>

\* the whole async loadSettings of the sandbox's mount effect for the three
\* fetched payloads: each setter replaces the state it writes
devLoadSettings(groups, envData, materials) ==
    /\ devSettingsOutcome = "pending"
    /\ devFetchedGroups' = groups
    /\ devFetchedMaterials' = materials
    /\ devMappings' = IF hasKey(groups, "mappings") THEN groups.mappings ELSE devMappings
    /\ devEnvironment' = IF defaultEnvironmentOf(envData) # Null
                         THEN defaultEnvironmentOf(envData) ELSE devEnvironment
    /\ IF hasKey(materials, "mappings") /\ mapThrows(materials.mappings)
       THEN /\ devSettingsOutcome' = "rejected"
            /\ UNCHANGED materialCollectionsByModel
       ELSE /\ devSettingsOutcome' = "completed"
            /\ materialCollectionsByModel' =
                  IF hasKey(materials, "mappings")
                  THEN [id \in ModelIds |->
                          [k \in 1..Len(materials.mappings) |->
                              toCollection(materials.mappings[k])]]
                  ELSE materialCollectionsByModel
    /\ UNCHANGED <<devModelId, devLoads, sceneHierarchy, materialNames, objectNames,
                   savedMappings>>
    /\ UNCHANGED <<configVars, viewVars, cameraVars, waveVars, frameVars, failVars, settingsVars, orbitVars, orderVars, storeVars>>

(***************************************************************************)
(* Specifications                                                          *)
(***************************************************************************)
\* the visibility controller: model switches, option toggles, settings load
NextVisibility ==
    \/ \E m \in ModelIds : setModel(m)
    \/ \E o \in CatalogOptionIds : toggleOption(o)
    \/ \E t \in MappingTables : loadVisualizationSettings(t)
SpecVisibility == Init /\ [][NextVisibility]_vars

\* the hull and material-type rules: every handler that changes one of their inputs
NextHull ==
    \/ \E m \in ModelIds : setModel(m)
    \/ \E mat \in MaterialIds : setMaterial(mat)
    \/ toggleOption(SOFT_DECK)
    \/ \E mode \in {"white", "grey"} : selectHullColorMode(mode)
    \/ toggleCustomHullColor
    \/ \E hex \in CustomHexes : pickCustomHullColor(hex)
SpecHull == Init /\ [][NextHull]_vars

\* the soft-deck rule: every handler that changes one of its inputs
NextSoftDeck ==
    \/ \E m \in ModelIds : setModel(m)
    \/ \E mat \in MaterialIds : setMaterial(mat)
    \/ toggleOption(SOFT_DECK)
    \/ \E key \in SoftDeckKeys : setSoftDeckColor(key)
SpecSoftDeck == Init /\ [][NextSoftDeck]_vars

\* the camera controller: pointer handlers and frames
NextCamera ==
    \/ onDown
    \/ onUp
    \/ releaseUndelivered
    \/ \E y \in CameraHeights : rotateOrZoom(y)
    \/ \E y \in CameraHeights : panDrag(y)
    \/ \E t \in ClockSamples : frame(t)
SpecCamera == Init /\ [][NextCamera]_vars

\* the frame loop under the viewing-mode switch
NextWave ==
    \/ \E mode \in {"ocean", "dry-dock"} : setWaveMode(mode)
    \/ NextCamera
SpecWave == Init /\ [][NextWave]_vars

\* the sandbox's model loader
NextDevLoad ==
    \/ \E m \in ModelIds : devSetModel(m)
    \/ \E i \in 1..MaxLoads : devLoadSucceeds(i)
    \/ \E i \in 1..MaxLoads : devLoadFails(i)
SpecDevLoad == Init /\ [][NextDevLoad]_vars

\* the frame loop against React's commits and deferred effects
NextFrames ==
    \/ \E m \in ModelIds : sceneLoadCommit(m)
    \/ \E t \in CabinTables : settingsCommit(t)
    \/ flushPassiveEffects
    \/ \E t \in ClockSamples : frame(t)
SpecFrames == Init /\ [][NextFrames]_vars

\* the viewer under model switches whose asset may fail to load
NextAssetFailure ==
    \/ \E m \in ModelIds : assetLoadFails(m)
    \/ viewerStatus = "showing" /\ \E m \in ModelIds : setModel(m)
    \/ \E t \in ClockSamples : frame(t)
SpecAssetFailure == Init /\ [][NextAssetFailure]_vars

\* the settings loader against every shape of the three payloads
NextSettings ==
    \/ \E g \in GroupPayloads, e \in EnvironmentPayloads, mt \in MaterialPayloads :
          loadVisualizationPayloads(g, e, mt)
    \/ \E m \in ModelIds : setModel(m)
SpecSettings == Init /\ [][NextSettings]_vars

\* what localStorage can hold when a 'storage' event arrives
EnvPresets == {Null, [id |-> "env-1", settings |-> PresetSettings]}
BoatPresets ==
    {Null,
     [id |-> "boat-1", modelId |-> Id33, hullColor |-> "#1E90FF",
      materialType |-> "fullCarbon", waveMode |-> "ocean",
      environment |-> environmentConfig([waterSpeed |-> 300]),
      materialVariantCollections |-> <<>>],
     \* a preset whose enum fields hold values the types do not list (the
     \* JSON of localStorage is cast, not validated)
     [id |-> "boat-2", modelId |-> Id29, hullColor |-> "#1E90FF",
      materialType |-> "kevlar", waveMode |-> "storm",
      environment |-> DEFAULT_ENVIRONMENT,
      materialVariantCollections |-> <<>>]}

\* the environment in force: presets from localStorage, the default
\* environment from the settings store, and the frames drawn meanwhile
NextPresets ==
    \/ \E e \in EnvPresets, b \in BoatPresets : applyPresetsFromStorage(e, b)
    \/ \E e \in EnvironmentPayloads : loadVisualizationPayloads(Null, e, Null)
    \/ \E t \in ClockSamples : frame(t)
SpecPresets == Init /\ [][NextPresets]_vars

\* rows the model lets the table grow to
MaxRows == 3
AdminIds == {"admin-1", "admin-2"}
StoredGroupSettings == {[mappings |-> t] : t \in CabinTables}
StoredEnvironments == {DEFAULT_ENVIRONMENT, StoredEnvironment}

\* everything outside the settings store
appVars == <<configVars, viewVars, cameraVars, waveVars, devVars, frameVars, failVars,
             settingsVars, orbitVars, orderVars>>

\* saveGroupVisibilitySettings(settings, adminId); the two flags are what the
\* database did with the update and with the insert
saveGroupVisibilitySettings(settings, adminId, updateApplied, insertApplied) ==
    /\ Len(visualizationRows) < MaxRows
    /\ visualizationRows' = saveRows(visualizationRows, adminId, "groups", settings,
                                     updateApplied, insertApplied)
    /\ saveReturned' = [type |-> "groups", success |-> insertApplied]
    /\ UNCHANGED <<loadReturned, appVars>>

\* saveDefaultEnvironment(environment, adminId)
saveDefaultEnvironment(environment, adminId, updateApplied, insertApplied) ==
    /\ Len(visualizationRows) < MaxRows
    /\ visualizationRows' = saveRows(visualizationRows, adminId, "environment",
                                     [environment |-> environment],
                                     updateApplied, insertApplied)
    /\ saveReturned' = [type |-> "environment", success |-> insertApplied]
    /\ UNCHANGED <<loadReturned, appVars>>

\* loadGroupVisibilitySettings(); a query that fails otherwise is caught and
\* answered with null
loadGroupVisibilitySettings(queryFails) ==
    /\ loadReturned' = [type |-> "groups",
                        data |-> IF queryFails THEN Null
                                 ELSE selectActive(visualizationRows, "groups")]
    /\ UNCHANGED <<visualizationRows, saveReturned, appVars>>

\* loadDefaultEnvironment(): envData?.environment of the active row
loadDefaultEnvironment(queryFails) ==
    /\ loadReturned' = [type |-> "environment",
                        data |-> IF queryFails THEN Null
                                 ELSE defaultEnvironmentOf(
                                          selectActive(visualizationRows, "environment"))]
    /\ UNCHANGED <<visualizationRows, saveReturned, appVars>>

\* the settings store under saves and loads of both settings types
NextStore ==
    \/ \E g \in StoredGroupSettings, a \in AdminIds, u \in BOOLEAN, i \in BOOLEAN :
          saveGroupVisibilitySettings(g, a, u, i)
    \/ \E e \in StoredEnvironments, a \in AdminIds, u \in BOOLEAN, i \in BOOLEAN :
          saveDefaultEnvironment(e, a, u, i)
    \/ \E f \in BOOLEAN : loadGroupVisibilitySettings(f)
    \/ \E f \in BOOLEAN : loadDefaultEnvironment(f)
SpecStore == Init /\ [][NextStore]_vars

\* the options the order panel can list
OrderOptionIds == {SOFT_DECK, MOTOR_UPGRADE}
\* one hull and its electric variant, one stored preset
OrderModelIds == {Id29, Id29E}
OrderHexes == CustomHexes
OrderPresets == {b \in BoatPresets : b # Null /\ b.id = "boat-1"}

\* what the order is priced from: model, options, hull colour, boat preset
NextOrder ==
    \/ \E m \in OrderModelIds : setModel(m)
    \/ \E o \in OrderOptionIds : toggleOption(o)
    \/ \E mode \in {"white", "grey"} : selectHullColorMode(mode)
    \/ toggleCustomHullColor
    \/ \E hex \in OrderHexes : pickCustomHullColor(hex)
    \/ \E b \in OrderPresets : applyPresetsFromStorage(Null, b)
SpecOrder == Init /\ [][NextOrder]_vars

\* the visibility pass under a mapping table that changes while the scene is shown
NextMappingEdits ==
    \/ \E t \in SingleMappingTables : mappingsPropChanged(t)
    \/ \E m \in ModelIds : setModel(m)
    \/ \E o \in CatalogOptionIds : toggleOption(o)
SpecMappingEdits == Init /\ [][NextMappingEdits]_vars

\* the settings the store can hold when the sandbox is opened
DevGroupPayloads == {Null} \cup {[mappings |-> t] : t \in CabinTables}
DevMaterialPayloads ==
    {Null, [mappings |-> <<[materialName |-> M_deck,
                            variants |-> <<[name |-> "Teak", hex |-> "#8B5A2B"]>>]>>]}

\* the sandbox as it opens: the model load and the settings fetch in flight
NextDevOpen ==
    \/ \E i \in 1..MaxLoads : devLoadSucceeds(i)
    \/ \E m \in ModelIds : devSetModel(m)
    \/ \E g \in DevGroupPayloads, e \in EnvironmentPayloads, mt \in DevMaterialPayloads :
          devLoadSettings(g, e, mt)
SpecDevOpen == Init /\ [][NextDevOpen]_vars

\* the sandbox edits and saves the table; the configurator loads what was
\* saved and toggles options
NextSandbox ==
    \/ \E i \in 1..MaxLoads : devLoadSucceeds(i)
    \/ \E g \in SandboxGroupNames, h \in BOOLEAN : handleGroupHiddenChange(g, h)
    \/ \E g \in SandboxGroupNames, o \in CatalogOptionIds \cup {NoOption} :
          handleGroupOptionChange(g, o)
    \/ \E b \in {Id29, Id33} : handleResetModelSettings(b)
    \/ handleSaveGroupVisibility
    \/ savedMappings # Null /\ loadVisualizationSettings(savedMappings)
    \/ \E o \in CatalogOptionIds : toggleOption(o)
SpecSandbox == Init /\ [][NextSandbox]_vars

Next ==
    \/ NextStore
    \/ NextOrder
    \/ NextDevOpen
    \/ NextPresets
    \/ NextSandbox
    \/ NextMappingEdits
    \/ NextSettings
    \/ NextVisibility \/ NextHull \/ NextSoftDeck \/ NextCamera \/ NextWave
    \/ NextDevLoad \/ NextFrames \/ NextAssetFailure
Spec == Init /\ [][Next]_vars

(***************************************************************************)
(* Properties of the visibility controller (SpecVisibility)                *)
(***************************************************************************)
\* modelPath of the asset on screen
Path == resolveModelPath(modelId)
AutoManagedNames == {N_el_motor, N_battary_V_4_new}
\* every node name of the two assets that is not auto-managed
NonAutoNames ==
    {SceneNames[p][n] : p \in ModelPaths, n \in Nodes} \ (AutoManagedNames \cup {<<>>})
NodesNamed(name) == {n \in Nodes : SceneNames[Path][n] = name}
\* index of the mapping the visibility pass finds for node n (0: none)
MappingOf(n) ==
    findMapping(groupVisibilityMappings, SceneNames[Path][n], getBaseModelId(modelId))
\* node n has a name and a mapping with hiddenByDefault = true and a linked option
HiddenAndLinked(n) ==
    /\ SceneNames[Path][n] # <<>>
    /\ MappingOf(n) # 0
    /\ groupVisibilityMappings[MappingOf(n)].hiddenByDefault
    /\ groupVisibilityMappings[MappingOf(n)].linkedOptionId # NoOption
LinkedOptionOf(n) == groupVisibilityMappings[MappingOf(n)].linkedOptionId

\* C1: for each base model B and every node name that is not auto-managed, the
\* visibility pass resolves the same result for modelId = B and modelId = B + "E",
\* whatever the mapping table and the selected options are
C1_VariantSharing ==
    \A B \in {Id29, Id33} : \A name \in NonAutoNames :
        resolveNode(name, B, groupVisibilityMappings, optionIds)
          = resolveNode(name, B \o <<"E">>, groupVisibilityMappings, optionIds)

\* C1 witness: the electric variant 2.9E is on screen and a node that is not
\* auto-managed is hidden by a mapping stored for the base model 2.9
C1_Witness ==
    /\ modelId = Id29E
    /\ \E n \in Nodes :
         /\ SceneNames[Path][n] \in NonAutoNames
         /\ MappingOf(n) # 0
         /\ groupVisibilityMappings[MappingOf(n)].modelId = Id29
         /\ resolveNode(SceneNames[Path][n], Id29E, groupVisibilityMappings, optionIds) = "hide"
         /\ ~scene.visible[n]

\* C2: after every visibility pass the nodes named el_motor and battary_V_4_new
\* have visible = (modelId ends in "E"), whatever the mapping table holds for
\* them or for their ancestors
C2_AutoManaged ==
    \A n \in Nodes :
        SceneNames[Path][n] \in AutoManagedNames
            => (scene.visible[n] <=> isElectricModel(modelId))

\* C2 witness: on an electric variant an ancestor of el_motor is hidden by a
\* mapping, a mapping is stored for el_motor itself, and el_motor is visible
C2_Witness ==
    /\ isElectricModel(modelId)
    /\ \E n \in NodesNamed(N_el_motor) :
         /\ MappingOf(n) # 0
         /\ scene.visible[n]
         /\ \E a \in Nodes : a # n /\ n \in SubtreeOf[a] /\ ~scene.visible[a]

LinkedNodes(o) == {n \in Nodes : HiddenAndLinked(n) /\ LinkedOptionOf(n) = o}
\* a step that toggles option o and nothing else
TogglesOnly(o) ==
    /\ includes(optionIds, o) # includes(optionIds', o)
    /\ \A o2 \in CatalogOptionIds \ {o} : includes(optionIds, o2) = includes(optionIds', o2)
    /\ modelId' = modelId
    /\ groupVisibilityMappings' = groupVisibilityMappings

\* C4: toggling one option O changes the visible flag of no node outside the
\* subtrees of the nodes linked to O
C4_ToggleFrame ==
    [][\A o \in CatalogOptionIds :
          TogglesOnly(o) =>
             \A n \in Nodes \ UNION {SubtreeOf[a] : a \in LinkedNodes(o)} :
                 scene'.visible[n] = scene.visible[n]]_vars

\* C4 witness: an option switched on after start shows the node linked to it
\* while a node outside that node's subtree stays hidden
C4_Witness ==
    \E a \in LinkedNodes("bimini") :
        /\ SceneNames[Path][a] \notin AutoManagedNames
        /\ includes(optionIds, "bimini")
        /\ scene.visible[a]
        /\ \E b \in Nodes \ SubtreeOf[a] :
             SceneNames[Path][b] \notin AutoManagedNames /\ ~scene.visible[b]

\* C10: every mesh detected as a depth mask has a material with colorWrite =
\* false and depthWrite = true, the render order 50 below the water's 100, and
\* castShadow = false, after load and after every visibility pass
C10_DepthMasks ==
    \A n \in Nodes :
        (SceneIsMesh[n] /\ DepthMaskNodes[Path][n]) =>
            /\ scene.material[n].colorWrite = FALSE
            /\ scene.material[n].depthWrite = TRUE
            /\ scene.renderOrder[n] = MASK_RENDER_ORDER
            /\ scene.renderOrder[n] < WATER_RENDER_ORDER
            /\ scene.castShadow[n] = FALSE

\* C10 witness: a visibility pass has shown a group that holds a depth mask
\* detected by name: a sibling mesh casts shadows again, the mask is visible
C10_Witness ==
    \E n \in Nodes : \E k \in Nodes :
        /\ SceneIsMesh[n] /\ byName(Path, n) /\ scene.visible[n]
        /\ k # n /\ SceneParent[k] = SceneParent[n]
        /\ SceneIsMesh[k] /\ scene.castShadow[k]

(***************************************************************************)
(* Properties of the material mapping engine (SpecHull, SpecSoftDeck)      *)
(***************************************************************************)
\* colour the file of asset p holds for the hull slot of the given mode
AuthoredHullColor(p, mode) ==
    AuthoredColor(p, IF mode = "white" THEN M_hull_white ELSE M_hull_grey)

\* C5 as claimed: with the custom hull override disabled, the two hull slots
\* hold the colour that hullColorMode selects (the white or the grey the asset
\* was authored with)
C5_HullSlotsFollowMode ==
    ~useCustomHullColor =>
        \A m \in HullMaterials[Path] :
            matColor[Path][m] = AuthoredHullColor(Path, hullColorMode)

\* a step that ticks the custom-colour checkbox with #FF6B00 in the picker,
\* from fiberglass, hullColorMode white and no option selected
C6_SwitchToCustom ==
    /\ materialId = "fiberglass" /\ hullColorMode = "white" /\ optionIds = <<>>
    /\ ~useCustomHullColor /\ useCustomHullColor'
    /\ customHullColor' = "#FF6B00"

\* C6: that step puts #FF6B00 into both hull slots, changes the colour of no
\* other material, and leaves every material-type mesh at the fiberglass colour
C6_CustomOverride ==
    [][C6_SwitchToCustom =>
         /\ \A m \in HullMaterials[Path] : matColor'[Path][m] = "#FF6B00"
         /\ \A p \in ModelPaths : \A m \in MaterialNames(p) :
               (p # Path \/ m \notin HullMaterials[p]) => matColor'[p][m] = matColor[p][m]
         /\ \A n \in Nodes :
               MaterialTypeMeshes[<<modelId, Path, n>>]
                  => matColor'[Path][scene.material[n].name] = FIBERGLASS_COLOR]_vars

\* C6 witness: the override is on with #FF6B00 from fiberglass / white / no
\* option, the hull slots are #FF6B00 and a material-type mesh is fiberglass grey
C6_Witness ==
    /\ materialId = "fiberglass" /\ hullColorMode = "white" /\ optionIds = <<>>
    /\ useCustomHullColor /\ customHullColor = "#FF6B00"
    /\ HullMaterials[Path] # {}
    /\ \A m \in HullMaterials[Path] : matColor[Path][m] = "#FF6B00"
    /\ \E n \in Nodes :
         /\ MaterialTypeMeshes[<<modelId, Path, n>>]
         /\ matColor[Path][scene.material[n].name] = FIBERGLASS_COLOR

\* the (deck, strip) pair the claim assigns to a key
ClaimedPair(key) ==
    IF toUpperCase(key) = KEY_SOFTGREY THEN [deck |-> "#939393", strip |-> "#FFFDFC"]
    ELSE IF toUpperCase(key) = KEY_RED THEN [deck |-> "#939393", strip |-> "#95070B"]
    ELSE [deck |-> "#9D622B", strip |-> "#FFFDFC"]
\* materials bound to a mesh of the model's deck or strip allowlist
SoftDeckMaterials ==
    {scene.material[n].name : n \in {k \in Nodes :
        SoftDeckMeshes[<<modelId, Path, k>>] \/ StripMeshes[<<modelId, Path, k>>]}}

\* while a softDeckColor key is passed, each deck-allowlist mesh has the deck
\* colour and each strip-allowlist mesh the strip colour of the key's pair
C7_PairApplied ==
    includes(optionIds, SOFT_DECK) =>
        \A n \in Nodes :
            /\ SoftDeckMeshes[<<modelId, Path, n>>]
                 => matColor[Path][scene.material[n].name] = ClaimedPair(softDeckColor).deck
            /\ StripMeshes[<<modelId, Path, n>>]
                 => matColor[Path][scene.material[n].name] = ClaimedPair(softDeckColor).strip
\* a change of the key changes the colour of no material outside the two allowlists
C7_OnlyAllowlists ==
    (softDeckColor' # softDeckColor) =>
        \A p \in ModelPaths : \A m \in MaterialNames(p) :
            (p # Path \/ m \notin SoftDeckMaterials) => matColor'[p][m] = matColor[p][m]

\* C7: the key selects its pair by case-insensitive match against the three
\* keys, any other key selects the first pair, and the pair is applied to
\* exactly the deck-allowlist and the strip-allowlist meshes of the model
C7_SoftDeckPair == []C7_PairApplied /\ [][C7_OnlyAllowlists]_vars

\* C7 witness: the key #95070bff, written in lower case, has painted a strip mesh
C7_Witness ==
    /\ includes(optionIds, SOFT_DECK)
    /\ softDeckColor = KEY_red_lower
    /\ \E n \in Nodes :
         /\ StripMeshes[<<modelId, Path, n>>]
         /\ matColor[Path][scene.material[n].name] = "#95070B"

(***************************************************************************)
(* Properties of the camera controller (SpecCamera)                        *)
(***************************************************************************)
\* C8 as claimed: every frame drawn while the right button is held shows the
\* camera at the height it had at the moment of that press
C8_FrozenAtPress ==
    (buttonHeld /\ drawnCameraY # NoCameraY) => drawnCameraY = pressCameraY

\* C9 as claimed: whenever the right button is not held, rotate and zoom are enabled
C9_EnabledWhenReleased ==
    ~buttonHeld => (enableRotate /\ enableZoom)

(***************************************************************************)
(* Claims about the rocking animator                                       *)
(***************************************************************************)
\* C11: once waveMode is dry-dock, every frame drawn shows zero pitch and zero
\* roll, the dry-dock vertical offset (0.34; 0.32 in ocean mode) and no water
\* surface; a water surface exists exactly when waveMode is ocean
C11_DryDockFrames ==
    /\ waterSurface <=> (waveMode = "ocean")
    /\ (waveMode = "dry-dock" /\ drawnBoat # NoFrame) =>
          drawnBoat = [y |-> DRY_DOCK_Y, pitch |-> 0, roll |-> 0, water |-> FALSE]
    /\ (waveMode = "ocean" /\ drawnBoat # NoFrame) =>
          (drawnBoat.y = OCEAN_Y /\ drawnBoat.water)

\* a frame drawn in dry-dock mode at a time at which the ocean pose is not level
C11_Witness ==
    /\ waveMode = "dry-dock"
    /\ drawnBoat # NoFrame
    /\ elapsedTime > 0
    /\ rockingPose("ocean", elapsedTime).pitch # 0

(***************************************************************************)
(* Claims about the cached asset                                           *)
(***************************************************************************)
\* the hull colours the file of asset p was authored with, as a snapshot
AuthoredSnapshot(p) == snapshotEffect(p, LoadedScenes[p], AuthoredColors[p])

\* C12 as claimed: the cached original is never mutated; every material of
\* every cached asset keeps its authored colour, and the hull "original colour"
\* snapshot of the loaded model holds the authored white and grey
C12_CachedOriginalAuthored ==
    /\ \A p \in ModelPaths : \A m \in MaterialNames(p) :
          matColor[p][m] = AuthoredColor(p, m)
    /\ originalColors = AuthoredSnapshot(Path)

(***************************************************************************)
(* Claims about the sandbox's model loader                                 *)
(***************************************************************************)
\* a step in which a superseded load (its signal aborted) resolves
SupersededResolves ==
    \E i \in 1..Len(devLoads) : devLoads[i].aborted /\ devLoads' = removeAt(devLoads, i)

\* C13 as claimed: when a superseded load resolves, by success or by failure,
\* the scene hierarchy and the material and object name lists do not change
C13_SupersededDiscarded ==
    [][SupersededResolves => UNCHANGED <<sceneHierarchy, materialNames, objectNames>>]_vars

(***************************************************************************)
(* Claims about frames and React's effects                                 *)
(***************************************************************************)
\* the visible flags the visibility pass gives a freshly loaded scene under cfg
ExpectedVisible(cfg) ==
    visibilityEffect(resolveModelPath(cfg.modelId),
                     LoadedScenes[resolveModelPath(cfg.modelId)],
                     cfg.modelId, cfg.groupVisibilityMappings, cfg.selectedOptions).visible

\* the frame shows, for the asset it displays, the node visibilities of cfg
ShowsConfiguration(cfg) ==
    /\ cfg # NoPending
    /\ drawnView.path = resolveModelPath(cfg.modelId)
    /\ drawnView.visible = ExpectedVisible(cfg)

\* C14 as claimed: the node visibilities of every drawn frame are those of one
\* configuration, the current one or the previous one, never those of the
\* untouched freshly cloned scene
C14_DrawnFrameConsistent ==
    drawnView # NoFrame =>
        (ShowsConfiguration(drawnView.props) \/ ShowsConfiguration(drawnView.effectProps))

(***************************************************************************)
(* Claims about a failing asset load                                       *)
(***************************************************************************)
\* C15 as claimed: after a failed asset load the viewer is in the empty-scene
\* state (still mounted, frames still drawn, no boat) and no error has left
\* the viewer component.  The model's only path to a state other than
\* "showing" is a failed load
C15_FailureContained ==
    viewerStatus # "showing" => (viewerStatus = "empty" /\ uncaughtError = NoError)

(***************************************************************************)
(* Claims about the settings loader                                        *)
(***************************************************************************)
\* the collections the fetched material payload stands for when a mapping
\* without variants counts as one with no variants
ExpectedCollections ==
    IF hasKey(fetchedMaterials, "mappings") /\ Len(fetchedMaterials.mappings) > 0
    THEN [k \in 1..Len(fetchedMaterials.mappings) |->
            IF "variants" \in DOMAIN fetchedMaterials.mappings[k]
            THEN toCollection(fetchedMaterials.mappings[k])
            ELSE toCollection_dropVariants(fetchedMaterials.mappings[k])]
    ELSE Null

\* C16 as claimed: whatever keys the payloads lack, the loader completes
\* without throwing, a missing key leaves its value at the empty default (no
\* mappings, built-in environment, no variants) and the rest is applied
C16_MissingKeysDefault ==
    settingsOutcome # "pending" =>
        /\ settingsOutcome = "completed"
        /\ materialCollectionsOverride = ExpectedCollections
        /\ environmentConfig(environmentOverrides) \in
              {DEFAULT_ENVIRONMENT, environmentConfig(StoredEnvironment)}

(***************************************************************************)
(* Claims about nodes without a mapping                                    *)
(***************************************************************************)
\* the strict ancestors of node n
AncestorsOf(n) == {a \in Nodes : a # n /\ n \in SubtreeOf[a]}

\* n carries a name, is not auto-managed nor below an auto-managed node, is
\* no depth mask, has no mapping for (its name, base model), and every one of
\* its ancestors is shown
UnmappedAndUnhidden(n) ==
    /\ SceneNames[Path][n] \in NonAutoNames
    /\ \A a \in AncestorsOf(n) : SceneNames[Path][a] \notin AutoManagedNames
    /\ ~DepthMaskNodes[Path][n]
    /\ MappingOf(n) = 0
    /\ \A a \in AncestorsOf(n) : scene.visible[a]

\* C17 as claimed: a node without a mapping and without a hidden ancestor is
\* visible, also when a mapping that hid it was removed from the table
C17_UnmappedVisible ==
    \A n \in Nodes : UnmappedAndUnhidden(n) => scene.visible[n]

(***************************************************************************)
(* Claims about the sandbox's link selector                                *)
(***************************************************************************)
\* node n has a mapping that carries a link to a catalog option
LinkedBySelector(n) ==
    /\ SceneNames[Path][n] \in NonAutoNames
    /\ MappingOf(n) # 0
    /\ groupVisibilityMappings[MappingOf(n)].linkedOptionId # NoOption

\* C18 as claimed: an object linked to a catalog option through the sandbox's
\* selector is visible in the viewer only while that option is selected
C18_LinkedOnlyWhenSelected ==
    \A n \in Nodes :
        (LinkedBySelector(n) /\ scene.visible[n]) =>
            includes(optionIds, groupVisibilityMappings[MappingOf(n)].linkedOptionId)

(***************************************************************************)
(* Claims about the orbit target                                           *)
(***************************************************************************)
\* C19 as claimed: in every frame drawn the orbit target sits at the reported
\* horizontal centre (x and z) and at height 0.3, whatever input preceded it
C19_TargetRecentred ==
    drawnTarget # NoFrame =>
        drawnTarget = [x |-> targetCenter.x, y |-> TARGET_Y, z |-> targetCenter.z]

(***************************************************************************)
(* Claims about the material-type rule                                     *)
(***************************************************************************)
\* the colour the claim names for the selected material
ClaimedTypeColor == IF materialId = "fullCarbon" THEN "#0A0C10" ELSE "#C7C7C7"

\* mesh n of the scene on screen, by its lower-cased name, is in the
\* material-type allowlist of the selected model / in its soft-deck or strip
\* allowlist
InMaterialAllowlist(n) ==
    includes(MATERIAL_MESHES_BY_MODEL(modelId), toLowerCase(SceneNames[Path][n]))
InDeckOrStripAllowlist(n) ==
    \/ includes(lowered(SOFT_DECK_MESHES_BY_MODEL(modelId)), toLowerCase(SceneNames[Path][n]))
    \/ includes(lowered(STRIP_MESHES_BY_MODEL(modelId)), toLowerCase(SceneNames[Path][n]))
PaintableMesh(n) ==
    SceneIsMesh[n] /\ scene.material[n].type = "MeshStandardMaterial"

\* C20: after the material pass every mesh of the material-type allowlist
\* that is in neither the soft-deck nor the strip allowlist has the colour
\* selected by materialType (fullCarbon #0A0C10, fiberglass #C7C7C7),
\* metalness 0.5, roughness 0.5 and opacity 1.0; a mesh of the soft-deck or
\* strip allowlist never carries a material-type colour
C20_MaterialTypeRule ==
    \A n \in Nodes :
        PaintableMesh(n) =>
            /\ (InMaterialAllowlist(n) /\ ~InDeckOrStripAllowlist(n)) =>
                  /\ matColor[Path][scene.material[n].name] = ClaimedTypeColor
                  /\ matSurface[Path][scene.material[n].name].metalness = "0.5"
                  /\ matSurface[Path][scene.material[n].name].roughness = "0.5"
                  /\ matSurface[Path][scene.material[n].name].opacity = "1.0"
            /\ InDeckOrStripAllowlist(n) =>
                  matColor[Path][scene.material[n].name] \notin {"#0A0C10", "#C7C7C7"}

\* full carbon was selected after a change of model: the allowlisted mesh is
\* carbon black with the rule's surface, next to a painted soft-deck mesh
C20_Witness ==
    /\ materialId = "fullCarbon"
    /\ modelId = Id33E
    /\ \E n \in Nodes :
         /\ PaintableMesh(n) /\ InMaterialAllowlist(n) /\ ~InDeckOrStripAllowlist(n)
         /\ matColor[Path][scene.material[n].name] = "#0A0C10"
         /\ matSurface[Path][scene.material[n].name] = MATERIAL_TYPE_SURFACE
    /\ \E n \in Nodes :
         /\ PaintableMesh(n) /\ InDeckOrStripAllowlist(n)
         /\ matSurface[Path][scene.material[n].name] = SOFT_DECK_SURFACE

(***************************************************************************)
(* Claims about the water's time uniform                                   *)
(***************************************************************************)
\* C21 as claimed: while waveMode stays ocean, every step (a frame, or a
\* change of the environment settings) leaves the water's time uniform at its
\* old value plus the frame's delta times waterSpeed: it is never reset
C21_WaterTimeContinuous ==
    [][(waveMode = "ocean" /\ waveMode' = "ocean") =>
          waterTime' = waterTime + (elapsedTime' - elapsedTime)
                                     * environmentConfig(environmentOverrides).waterSpeed]_vars

(***************************************************************************)
(* Claims about the default environment and presets                        *)
(***************************************************************************)
\* C24 as claimed: a default-environment fetch that resolves while a preset's
\* environment is in force does not replace it
C24_PresetKept ==
    [][(environmentOverrides # Null /\ ~settingsLoaded /\ settingsLoaded') =>
          environmentOverrides' = environmentOverrides]_vars

(***************************************************************************)
(* Claims about the centre callback                                        *)
(***************************************************************************)
\* C22 as claimed: the horizontal centre is computed and reported once per
\* scene load; a configuration change or re-render that leaves the scene
\* unchanged does not compute or report it again
C22_CenterReportedOncePerLoad == centerEffectCause = "scene"

(***************************************************************************)
(* Claims about enum fields holding unlisted values                        *)
(***************************************************************************)
\* the value the claim has the viewer act on
EffectiveWaveMode == IF waveMode \in {"ocean", "dry-dock"} THEN waveMode ELSE "ocean"
EffectiveMaterialType ==
    IF materialId \in {"fiberglass", "fullCarbon"} THEN materialId ELSE "fiberglass"

\* C23 as claimed: a waveMode or materialType outside its enum acts as the
\* default: every frame drawn has the water surface, the rocking pose's
\* height and the camera profile of the effective wave mode, and the
\* material-type meshes have the colour of the effective material
C23_UnknownAsDefault ==
    /\ drawnBoat # NoFrame =>
          /\ drawnBoat.water = (EffectiveWaveMode = "ocean")
          /\ drawnBoat.y = (IF EffectiveWaveMode = "ocean" THEN OCEAN_Y ELSE DRY_DOCK_Y)
    /\ isDryDock(waveMode) = (EffectiveWaveMode = "dry-dock")
    /\ \A n \in Nodes :
          (PaintableMesh(n) /\ InMaterialAllowlist(n) /\ ~InDeckOrStripAllowlist(n)) =>
              matColor[Path][scene.material[n].name] =
                  (IF EffectiveMaterialType = "fullCarbon" THEN "#0A0C10" ELSE "#C7C7C7")

(***************************************************************************)
(* Claims about the propagation of visibility                              *)
(***************************************************************************)
\* node a is auto-managed or has a mapping for the base model
Ruled(a) ==
    /\ SceneNames[Path][a] # <<>>
    /\ (SceneNames[Path][a] \in AutoManagedNames \/ MappingOf(a) # 0)
\* a is the nearest ancestor-or-self of n that carries a rule
NearestRuled(a, n) ==
    /\ Ruled(a) /\ n \in SubtreeOf[a]
    /\ \A b \in SubtreeOf[a] : (b # a /\ n \in SubtreeOf[b]) => ~Ruled(b)
\* what the rule of a resolves to
ClaimedResolution(a) ==
    IF SceneNames[Path][a] \in AutoManagedNames THEN isElectricModel(modelId)
    ELSE \/ ~groupVisibilityMappings[MappingOf(a)].hiddenByDefault
         \/ /\ groupVisibilityMappings[MappingOf(a)].linkedOptionId # NoOption
            /\ includes(optionIds, groupVisibilityMappings[MappingOf(a)].linkedOptionId)

DevOpened ==
    /\ devSettingsOutcome = "completed"
    /\ devLoads = <<>>
    /\ sceneHierarchy = buildNodeTree(resolveModelPath(devModelId))
\* every mapping loaded from the store and a mapping for every named node of
\* the scene are in the table
AllMappingsPresent ==
    /\ hasKey(devFetchedGroups, "mappings") =>
          \A i \in 1..Len(devFetchedGroups.mappings) :
              \E k \in 1..Len(devMappings) : devMappings[k] = devFetchedGroups.mappings[i]
    /\ \A name \in sceneHierarchy :
          \E k \in 1..Len(devMappings) : devMappings[k].groupName = name
\* every collection loaded from the store and a collection for every
\* material of the scene are in the selected model's collections
AllCollectionsPresent ==
    /\ hasKey(devFetchedMaterials, "mappings") =>
          \A i \in 1..Len(devFetchedMaterials.mappings) :
              existingByName(materialCollectionsByModel[devModelId],
                             devFetchedMaterials.mappings[i].materialName)
    /\ \A name \in collectMaterialNames(resolveModelPath(devModelId)) :
          existingByName(materialCollectionsByModel[devModelId], name)

\* C26 as claimed: once the settings fetch and the model load have both
\* completed, in either order, the table holds the stored and the derived
\* mappings and the collections hold the stored and the derived collections
C26_OrderIndependent ==
    DevOpened => (AllMappingsPresent /\ AllCollectionsPresent)

(***************************************************************************)
(* Claims about the shape of the sandbox's mapping table                   *)
(***************************************************************************)
\* C27 as claimed: after any sequence of sandbox operations every entry of
\* the table carries a base model id (2.9 or 3.3) and no two entries share
\* the same (groupName, modelId)
C27_TableWellFormed ==
    /\ \A k \in 1..Len(devMappings) : devMappings[k].modelId \in {Id29, Id33}
    /\ \A j \in 1..Len(devMappings) : \A k \in 1..Len(devMappings) :
          (devMappings[j].groupName = devMappings[k].groupName
           /\ devMappings[j].modelId = devMappings[k].modelId) => j = k

(***************************************************************************)
(* Claims about the price shown                                            *)
(***************************************************************************)
\* the configuration object calculatePrice receives
CurrentConfiguration ==
    [modelId |-> modelId, materialId |-> materialId, optionIds |-> optionIds,
     colour |-> colour]

\* base price plus the selected options' prices plus the surcharge once
\* while the custom hull colour is in use
ClaimedSubtotal ==
    LET entries == {i \in 1..Len(SampleCatalog.basePrices) :
                       /\ SampleCatalog.basePrices[i].modelId = modelId
                       /\ SampleCatalog.basePrices[i].materialId = materialId}
        base == IF entries = {} THEN 0
                ELSE LET e == SampleCatalog.basePrices[CHOOSE i \in entries : TRUE]
                     IN IF "tradePrice" \in DOMAIN e THEN e.tradePrice ELSE e.amountUsd
    IN base + sumOptions(SampleCatalog, optionIds)
            + (IF useCustomHullColor THEN SampleCatalog.customColor.priceUsd ELSE 0)

\* C28 as claimed: the subtotal shown is the base price plus the selected
\* options' prices plus the custom-colour surcharge exactly once when the
\* custom hull colour is in use, and not at all otherwise
C28_SurchargeOnce ==
    subtotalShown(SampleCatalog, CurrentConfiguration, useCustomHullColor) = ClaimedSubtotal

(***************************************************************************)
(* Claims about the electric-only option                                   *)
(***************************************************************************)
\* C30 as claimed: with a non-electric model selected, the selected options
\* do not contain the electric-only option 10.5kw-motor
C30_MotorOnlyOnElectric ==
    ~isElectricModel(modelId) => ~includes(optionIds, MOTOR_UPGRADE)

(***************************************************************************)
(* Claims about the settings store                                         *)
(***************************************************************************)
\* C29 as claimed: a save that returns false leaves the active settings of
\* its type as they were, so a load still returns what was saved before
C29_FailedSaveKeepsActive ==
    [][\A t \in {"groups", "environment"} :
          (saveReturned' = [type |-> t, success |-> FALSE]
           /\ selectActive(visualizationRows, t) # Null)
          => selectActive(visualizationRows', t) = selectActive(visualizationRows, t)]_vars

====
